---- MODULE Spec2Model ----
(***************************************************************************)
(* MultiAudio: the bounded blocking BufferQueue (src/audio/BufferQueue.cpp) *)
(* and the threads of src/main.cpp that hand audio blocks through two of   *)
(* them (real-time callback, processing thread, main's shutdown).          *)
(*                                                                         *)
(* A BufferQueue call is a sequence of steps of the calling thread.  The   *)
(* mutex, the two condition variables and the atomic done flag are state:  *)
(* done is read and written outside the mutex wherever the code does so,   *)
(* and a condition-variable wait is the usual loop                         *)
(*     while (!pred()) wait(lock);                                         *)
(* whose predicate evaluation and whose atomic unlock-and-block are two    *)
(* steps.                                                                  *)
(***************************************************************************)
EXTENDS Integers, Sequences, FiniteSets, TLC

VARIABLES
    bufferQueue,    \* [queue -> Seq(block)]   std::queue<std::vector<float>>
    queueCapacity,  \* [queue -> Nat]          size_t queueCapacity
    done,           \* [queue -> BOOLEAN]      std::atomic<bool> done
    mtx,            \* [queue -> thread or NoThread]  owner of std::mutex mtx
    queueHasData,   \* [queue -> SUBSET thread] threads blocked in queueHasData.wait
    queueHasSpace,  \* [queue -> SUBSET thread] threads blocked in queueHasSpace.wait
    pc,             \* [thread -> position inside the current BufferQueue call]
    op,             \* [thread -> "none" | "push" | "pop" | "setDone"] current/last call
    opq,            \* [thread -> queue of the current/last call]
    arg,            \* [thread -> block handed to push]
    buf,            \* [thread -> block a successful pop stored in its out-parameter]
    ret,            \* [thread -> result of the last finished call]
    role,           \* [thread -> what the thread does between calls]
    nCalls,         \* number of calls the client threads have started
    nextBlock,      \* next fresh block a client pushes
    at,             \* [thread -> position in the thread's own code (main.cpp)]
    running,        \* atomic<bool> running (main.cpp)
    streamRunning,  \* the hardware stream is started and not yet stopped
    nCallbacks,     \* number of callback invocations the host has made
    played,         \* what each callback invocation wrote to the hardware output
    pushed,         \* history: [queue -> Seq(block)] blocks push() enqueued
    popped,         \* history: [queue -> Seq(block)] blocks pop() returned
    passDone,       \* history: [thread -> done as it was when the wait of push/pop was passed]
    waitSnap,       \* history: [thread -> queue contents / pop count when push blocked]
    noiseGate,      \* audio::NoiseGate noiseGate (main.cpp:39)
    eq,             \* audio::ThreeBandEQ eq (main.cpp:40)
    limiter,        \* audio::Limiter limiter (main.cpp:41)
    deesserConfig,  \* DeEsserSettings deesserConfig (main.cpp:43-45)
    pcall,          \* the process() call of the processing thread: position, arguments, result
    subject,        \* the effect whose calls a behaviour of the effect specifications makes
    fxn,            \* numbers of process() calls and of control-thread calls made
    fxh             \* history: unsynchronised conflicting accesses, disable/enable order

qvars == <<bufferQueue, queueCapacity, done, mtx, queueHasData, queueHasSpace>>
cvars == <<pc, op, opq, arg, buf, ret, role, nCalls, nextBlock>>
pvars == <<at, running, streamRunning, nCallbacks, played>>
hvars == <<pushed, popped, passDone, waitSnap>>
fvars == <<noiseGate, eq, limiter, deesserConfig, pcall, subject, fxn, fxh>>
vars  == <<qvars, cvars, pvars, hvars, fvars>>

-----------------------------------------------------------------------------
(* Bounds of the model *)

\* largest capacity a client-constructed queue is given
MaxCapacity == 2
\* calls the client threads make, all together
MaxCalls == 4
\* callback invocations the host makes before it only waits to be stopped
MaxCallbacks == 2
\* resolution of the fixed-point numbers that stand for floats: 1.0 is Unit
Unit == 100
\* largest number of samples handed to one process() call
MaxFrames == 2
\* process() calls the processing thread makes on the effect under test
MaxProcessCalls == 2
\* setter calls the control thread makes on the effect under test
MaxControlCalls == 3
\* blocks of one kind (all above or all below the threshold) counted in a row
MaxRunBlocks == 1500
\* largest number of samples handed to applyDeEsser
MaxDeEsserSamples == 5
\* largest transform size a NoiseGate is constructed with when its bins are
\* assigned to bands
MaxBandFftSize == 34

(* Program constants *)

\* BufferQueue(size_t capacity = 10): inputBuffer and outputBuffer use the default
DEFAULT_CAPACITY == 10
NUM_CHANNELS == 2
FRAMES_PER_BUFFER == 1024

NoThread == "nobody"
\* an empty std::vector<float>: what an out-parameter holds before any pop.
\* The threads of main.cpp exchange blocks [id, n, ch]; client threads
\* exchange blocks that are just numbered 1, 2, ...
NoBlock ==
    IF \E t \in DOMAIN role : role[t] = "prog" THEN [id |-> 0, n |-> 0] ELSE 0

Threads == DOMAIN pc
Queues  == DOMAIN bufferQueue

-----------------------------------------------------------------------------
(* Calls and returns *)

\* a thread enters BufferQueue::push / pop / setDone on queue q
Call(t, o, q, a) ==
    /\ pc[t] = "idle"
    /\ op'  = [op  EXCEPT ![t] = o]
    /\ opq' = [opq EXCEPT ![t] = q]
    /\ arg' = [arg EXCEPT ![t] = a]
    /\ pc'  = [pc  EXCEPT ![t] =
                 CASE o = "push" -> "push_lock"
                   [] o = "pop"  -> "pop_lock"
                   [] OTHER      -> "sd_store"]

\* position at which a thread taken off a condition variable goes on:
\* wait() re-locks the mutex and the predicate is evaluated again
Relock(t) == IF op[t] = "push" THEN "push_lock" ELSE "pop_lock"

\* pc after the threads of ws were taken off a condition variable
Wake(ws) == [x \in Threads |-> IF x \in ws THEN Relock(x) ELSE pc[x]]

\* a notify_one that wakes nobody
NotifyOneNobody(waiters) == {{}}
\* the sets of waiters notify_one may wake: one of them, or nobody when none waits
NotifyOne(waiters) == IF waiters = {} THEN {{}} ELSE {{w} : w \in waiters}

\* the set of waiters notify_all wakes
NotifyAll(waiters) == waiters

\* unique_lock<mutex> lock(mtx): blocks while another thread owns the mutex
Lock(t, q) ==
    /\ mtx[q] = NoThread
    /\ mtx' = [mtx EXCEPT ![q] = t]

Unlock(t, q) == mtx' = [mtx EXCEPT ![q] = NoThread]

-----------------------------------------------------------------------------
(* BufferQueue::push, BufferQueue.cpp:9-32 *)

\* the wait predicate of push (line 16)
PushMayProceedLe(q) == Len(bufferQueue[q]) <= queueCapacity[q] \/ done[q]
PushMayProceed(q) == Len(bufferQueue[q]) < queueCapacity[q] \/ done[q]

\* line 12 (and the re-lock when a wait ends)
PushLock(t) ==
    /\ pc[t] = "push_lock"
    /\ Lock(t, opq[t])
    /\ pc' = [pc EXCEPT ![t] = "push_pred"]
    /\ UNCHANGED <<bufferQueue, queueCapacity, done, queueHasData, queueHasSpace>>
    /\ UNCHANGED <<op, opq, arg, buf, ret, role, nCalls, nextBlock>>
    /\ UNCHANGED <<pvars, hvars>>
    /\ UNCHANGED fvars

\* line 16: one evaluation of the predicate, mutex held
PushPred(t) ==
    /\ pc[t] = "push_pred"
    /\ IF PushMayProceed(opq[t])
         THEN /\ pc' = [pc EXCEPT ![t] = "push_chk"]
              /\ passDone' = [passDone EXCEPT ![t] = done[opq[t]]]
         ELSE /\ pc' = [pc EXCEPT ![t] = "push_block"]
              /\ UNCHANGED passDone
    /\ UNCHANGED <<qvars, op, opq, arg, buf, ret, role, nCalls, nextBlock>>
    /\ UNCHANGED <<pvars, pushed, popped, waitSnap>>
    /\ UNCHANGED fvars

\* line 16: wait(lock) releases the mutex and blocks, atomically
PushBlock(t) ==
    /\ pc[t] = "push_block"
    /\ Unlock(t, opq[t])
    /\ queueHasSpace' = [queueHasSpace EXCEPT ![opq[t]] = @ \cup {t}]
    /\ pc' = [pc EXCEPT ![t] = "push_blocked"]
    /\ waitSnap' = [waitSnap EXCEPT ![t] =
                      [held |-> bufferQueue[opq[t]], pops |-> Len(popped[opq[t]])]]
    /\ UNCHANGED <<bufferQueue, queueCapacity, done, queueHasData>>
    /\ UNCHANGED <<op, opq, arg, buf, ret, role, nCalls, nextBlock>>
    /\ UNCHANGED <<pvars, pushed, popped, passDone>>
    /\ UNCHANGED fvars

\* line 19: whether push gives up instead of enqueuing
PushGivesUpNever(q) == FALSE
PushGivesUp(q) == done[q]

\* line 25: bufferQueue.push(buffer) appends at the back
PushEnqueueFront(q, b) == <<b>> \o bufferQueue[q]
PushEnqueue(q, b) == Append(bufferQueue[q], b)

\* lines 19-28: the shutdown check, then enqueue and unlock
PushChk(t) ==
    /\ pc[t] = "push_chk"
    /\ Unlock(t, opq[t])
    /\ IF PushGivesUp(opq[t])
         THEN /\ pc'  = [pc  EXCEPT ![t] = "idle"]
              /\ ret' = [ret EXCEPT ![t] = "dropped"]
              /\ UNCHANGED <<bufferQueue, pushed>>
         ELSE /\ bufferQueue' = [bufferQueue EXCEPT ![opq[t]] = PushEnqueue(opq[t], arg[t])]
              /\ pushed' = [pushed EXCEPT ![opq[t]] = Append(@, arg[t])]
              /\ pc' = [pc EXCEPT ![t] = "push_notify"]
              /\ UNCHANGED ret
    /\ UNCHANGED <<queueCapacity, done, queueHasData, queueHasSpace>>
    /\ UNCHANGED <<op, opq, arg, buf, role, nCalls, nextBlock>>
    /\ UNCHANGED <<pvars, popped, passDone, waitSnap>>
    /\ UNCHANGED fvars

\* line 31: queueHasData.notify_one(), then return
PushNotify(t) ==
    /\ pc[t] = "push_notify"
    /\ \E ws \in NotifyOne(queueHasData[opq[t]]) :
         /\ queueHasData' = [queueHasData EXCEPT ![opq[t]] = @ \ ws]
         /\ pc' = [Wake(ws) EXCEPT ![t] = "idle"]
    /\ ret' = [ret EXCEPT ![t] = "ok"]
    /\ UNCHANGED <<bufferQueue, queueCapacity, done, mtx, queueHasSpace>>
    /\ UNCHANGED <<op, opq, arg, buf, role, nCalls, nextBlock>>
    /\ UNCHANGED <<pvars, hvars>>
    /\ UNCHANGED fvars

-----------------------------------------------------------------------------
(* BufferQueue::pop, BufferQueue.cpp:34-61 *)

\* the wait predicate of pop (line 40)
PopMayProceed(q) == Len(bufferQueue[q]) > 0 \/ done[q]

\* line 37 (and the re-lock when a wait ends)
PopLock(t) ==
    /\ pc[t] = "pop_lock"
    /\ Lock(t, opq[t])
    /\ pc' = [pc EXCEPT ![t] = "pop_pred"]
    /\ UNCHANGED <<bufferQueue, queueCapacity, done, queueHasData, queueHasSpace>>
    /\ UNCHANGED <<op, opq, arg, buf, ret, role, nCalls, nextBlock>>
    /\ UNCHANGED <<pvars, hvars>>
    /\ UNCHANGED fvars

\* line 40: one evaluation of the predicate, mutex held
PopPred(t) ==
    /\ pc[t] = "pop_pred"
    /\ IF PopMayProceed(opq[t])
         THEN /\ pc' = [pc EXCEPT ![t] = "pop_chk"]
              /\ passDone' = [passDone EXCEPT ![t] = done[opq[t]]]
         ELSE /\ pc' = [pc EXCEPT ![t] = "pop_block"]
              /\ UNCHANGED passDone
    /\ UNCHANGED <<qvars, op, opq, arg, buf, ret, role, nCalls, nextBlock>>
    /\ UNCHANGED <<pvars, pushed, popped, waitSnap>>
    /\ UNCHANGED fvars

\* line 40: wait(lock) releases the mutex and blocks, atomically
PopBlock(t) ==
    /\ pc[t] = "pop_block"
    /\ Unlock(t, opq[t])
    /\ queueHasData' = [queueHasData EXCEPT ![opq[t]] = @ \cup {t}]
    /\ pc' = [pc EXCEPT ![t] = "pop_blocked"]
    /\ UNCHANGED <<bufferQueue, queueCapacity, done, queueHasSpace>>
    /\ UNCHANGED <<op, opq, arg, buf, ret, role, nCalls, nextBlock>>
    /\ UNCHANGED <<pvars, hvars>>
    /\ UNCHANGED fvars

\* line 43: whether pop reports failure
PopFailsWhenDone(q) == done[q]
PopFails(q) == Len(bufferQueue[q]) = 0 /\ done[q]

\* the block pop hands out (line 49) and what stays in the queue (line 52)
PopFrontLast(q) == bufferQueue[q][Len(bufferQueue[q])]
PopFront(q) == Head(bufferQueue[q])
PopRest(q) == Tail(bufferQueue[q])

\* lines 43-55: the failure check, then dequeue and unlock.  front() of an empty
\* queue (reached only if the queue were empty and not done) is undefined: "ub"
PopChk(t) ==
    /\ pc[t] = "pop_chk"
    /\ Unlock(t, opq[t])
    /\ IF PopFails(opq[t])
         THEN /\ pc'  = [pc  EXCEPT ![t] = "idle"]
              /\ ret' = [ret EXCEPT ![t] = "fail"]
              /\ UNCHANGED <<bufferQueue, buf, popped>>
         ELSE IF Len(bufferQueue[opq[t]]) = 0
         THEN /\ pc'  = [pc  EXCEPT ![t] = "idle"]
              /\ ret' = [ret EXCEPT ![t] = "ub"]
              /\ UNCHANGED <<bufferQueue, buf, popped>>
         ELSE /\ buf' = [buf EXCEPT ![t] = PopFront(opq[t])]
              /\ bufferQueue' = [bufferQueue EXCEPT ![opq[t]] = PopRest(opq[t])]
              /\ popped' = [popped EXCEPT ![opq[t]] = Append(@, PopFront(opq[t]))]
              /\ pc' = [pc EXCEPT ![t] = "pop_notify"]
              /\ UNCHANGED ret
    /\ UNCHANGED <<queueCapacity, done, queueHasData, queueHasSpace>>
    /\ UNCHANGED <<op, opq, arg, role, nCalls, nextBlock>>
    /\ UNCHANGED <<pvars, pushed, passDone, waitSnap>>
    /\ UNCHANGED fvars

\* line 58: queueHasSpace.notify_one(), then return true
PopNotify(t) ==
    /\ pc[t] = "pop_notify"
    /\ \E ws \in NotifyOne(queueHasSpace[opq[t]]) :
         /\ queueHasSpace' = [queueHasSpace EXCEPT ![opq[t]] = @ \ ws]
         /\ pc' = [Wake(ws) EXCEPT ![t] = "idle"]
    /\ ret' = [ret EXCEPT ![t] = "ok"]
    /\ UNCHANGED <<bufferQueue, queueCapacity, done, mtx, queueHasData>>
    /\ UNCHANGED <<op, opq, arg, buf, role, nCalls, nextBlock>>
    /\ UNCHANGED <<pvars, hvars>>
    /\ UNCHANGED fvars

-----------------------------------------------------------------------------
(* BufferQueue::setDone, BufferQueue.cpp:63-73: no step takes the mutex *)

\* the value done.store() writes (line 66)
SetDoneValueToggle(q) == ~done[q]
SetDoneValue(q) == TRUE

\* line 66: done.store(true)
SdStore(t) ==
    /\ pc[t] = "sd_store"
    /\ done' = [done EXCEPT ![opq[t]] = SetDoneValue(opq[t])]
    /\ pc' = [pc EXCEPT ![t] = "sd_data"]
    /\ UNCHANGED <<bufferQueue, queueCapacity, mtx, queueHasData, queueHasSpace>>
    /\ UNCHANGED <<op, opq, arg, buf, ret, role, nCalls, nextBlock>>
    /\ UNCHANGED <<pvars, hvars>>
    /\ UNCHANGED fvars

\* line 69: queueHasData.notify_all()
SdNotifyData(t) ==
    /\ pc[t] = "sd_data"
    /\ queueHasData' = [queueHasData EXCEPT ![opq[t]] = @ \ NotifyAll(@)]
    /\ pc' = [Wake(NotifyAll(queueHasData[opq[t]])) EXCEPT ![t] = "sd_space"]
    /\ UNCHANGED <<bufferQueue, queueCapacity, done, mtx, queueHasSpace>>
    /\ UNCHANGED <<op, opq, arg, buf, ret, role, nCalls, nextBlock>>
    /\ UNCHANGED <<pvars, hvars>>
    /\ UNCHANGED fvars

\* line 72: queueHasSpace.notify_all(), then return
SdNotifySpace(t) ==
    /\ pc[t] = "sd_space"
    /\ queueHasSpace' = [queueHasSpace EXCEPT ![opq[t]] = @ \ NotifyAll(@)]
    /\ pc' = [Wake(NotifyAll(queueHasSpace[opq[t]])) EXCEPT ![t] = "idle"]
    /\ ret' = [ret EXCEPT ![t] = "void"]
    /\ UNCHANGED <<bufferQueue, queueCapacity, done, mtx, queueHasData>>
    /\ UNCHANGED <<op, opq, arg, buf, role, nCalls, nextBlock>>
    /\ UNCHANGED <<pvars, hvars>>
    /\ UNCHANGED fvars

\* std::condition_variable::wait may return without a notification; the loop of
\* wait(lock, pred) then re-locks and evaluates the predicate again
SpuriousWake(t) ==
    /\ pc[t] \in {"push_blocked", "pop_blocked"}
    /\ queueHasData'  = [queueHasData  EXCEPT ![opq[t]] = @ \ {t}]
    /\ queueHasSpace' = [queueHasSpace EXCEPT ![opq[t]] = @ \ {t}]
    /\ pc' = [pc EXCEPT ![t] = Relock(t)]
    /\ UNCHANGED <<bufferQueue, queueCapacity, done, mtx>>
    /\ UNCHANGED <<op, opq, arg, buf, ret, role, nCalls, nextBlock>>
    /\ UNCHANGED <<pvars, hvars>>
    /\ UNCHANGED fvars

\* the steps of a call that is under way
QueueStep(t) ==
    \/ PushLock(t) \/ PushPred(t) \/ PushBlock(t) \/ PushChk(t) \/ PushNotify(t)
    \/ PopLock(t) \/ PopPred(t) \/ PopBlock(t) \/ PopChk(t) \/ PopNotify(t)
    \/ SdStore(t) \/ SdNotifyData(t) \/ SdNotifySpace(t)

-----------------------------------------------------------------------------
(* Effects: program constants, the sizes the effects are built with, inputs *)

SAMPLE_RATE == 48000
NUM_BANDS == 4
NUM_EQ_BANDS == 3

\* NoiseGate(rate, size, ...): the transform size the gate is built with
GateFftSize == 8
\* ThreeBandEQ(rate, frameSize): the hop size the EQ is built with
EqHopSize == 2

\* samples handed to process(): finite, not confined to [-1, 1]; the smallest
\* has the magnitude of the limiter's default threshold
SampleValues == {-2 * Unit, 0, (2 * Unit) \div 100}
\* arguments of setThreshold, in and out of [0, 1]
ThresholdInputs == {-Unit, 2 * Unit}
\* arguments of setAttackTime and setReleaseTime, in tenths of a millisecond
TimeInputs == {0, 10, 1000}
\* arguments of setBandGain and setBandCutoff
BandInputs == {0, NUM_EQ_BANDS}
GainInputs == {0, 7 * Unit}
CutoffInputs == {12000, 30000}

(* The effects (src/effects).  A float is a fixed-point number: the integer *)
(* v stands for v / Unit.  Times are tenths of a millisecond.  The          *)
(* processing thread's process() call is a sequence of steps (entry, then   *)
(* one step per loop iteration); a setter called by the control thread is   *)
(* one step.  No setter synchronises with process(): when a setter stores   *)
(* to a field between two steps of a call, the store lands anywhere among   *)
(* the loads and stores of the call's next step, so each load of that step  *)
(* finds the value from before the store or the stored one.                 *)

StdMax(a, b) == IF a < b THEN b ELSE a
StdMin(a, b) == IF b < a THEN b ELSE a
Abs(x) == IF x < 0 THEN -x ELSE x

\* the block a bypassing process() would leave if it filled the output with zeroes
CopyBlockSilence(inputBuffer) == [i \in 1..Len(inputBuffer) |-> 0]
\* std::copy(inputBuffer, inputBuffer + numFrames, outputBuffer)
CopyBlock(inputBuffer) == inputBuffer

\* the float product a * b of a sample and a gain
Mul(a, b) == IF a < 0 THEN -((Abs(a) * b) \div Unit) ELSE (a * b) \div Unit

\* the float quotient a / b of two non-negative numbers, b # 0
Quot(a, b) == (a * Unit) \div b

\* c * from + (1 - d) * to, the one-pole step of the gain toward its target (c
\* and d are the two loads of the coefficient); the fixed-point result is
\* rounded toward the target, so that a step between different values moves
Blend(c, from, d, to) ==
    LET s == c * from + (Unit - d) * to
    IN  IF to < from THEN s \div Unit ELSE (s + Unit - 1) \div Unit

\* std::exp(-1.0f / x) in hundredths, x = x10 / 10 samples
ExpNegInv(x10) ==
    CASE x10 < 5    -> 0
      [] x10 < 20   -> 37
      [] x10 < 100  -> 81
      [] x10 < 1000 -> 97
      [] OTHER      -> 99

\* calculateCoeffs (Limiter.cpp:31-36, NoiseGate.cpp:56-60): the coefficient
\* for a time of ms10 tenths of a millisecond; TIME_EPSILON (1e-6 s) is below
\* every time the setters let through
SmoothingCoeff(ms10, rate) == (ExpNegInv((ms10 * rate) \div 1000) * Unit) \div 100

\* the control thread stored to no field
NoTorn == [f \in {} |-> 0]

\* no process() call was made yet
NoCall ==
    [fx |-> "none", pc |-> "idle", input |-> <<>>, output |-> <<>>,
     active |-> FALSE, path |-> "none", targetGain |-> 0, torn |-> NoTorn]

\* the values a field had before the control thread's stores since the last
\* step of the call under way: fields is what a setter is about to overwrite in
\* the object obj
Tear(fields, obj) ==
    IF pcall.pc = "idle" THEN pcall.torn
    ELSE [f \in (DOMAIN pcall.torn) \cup fields |->
            IF f \in DOMAIN pcall.torn THEN pcall.torn[f] ELSE obj[f]]

\* the pairs <<first load, second load>> a step of process() can get from field
\* f of obj, in program order
Loads(obj, f) ==
    IF f \in DOMAIN pcall.torn
      THEN {<<obj[f], obj[f]>>, <<pcall.torn[f], obj[f]>>, <<pcall.torn[f], pcall.torn[f]>>}
      ELSE {<<obj[f], obj[f]>>}

\* where the control thread's store to currentGain can land in an iteration
\* that loads the gain (1), loads it again (2), stores the blend (3), loads it
\* for the clamp (4), stores the clamped value (5) and loads it for the output:
\* before all of them (0) or right after one; after (2) and (4) it is
\* overwritten like after (1) resp. (3) it is read, so 2 stands for both
GainStoreLands(obj) ==
    IF "currentGain" \in DOMAIN pcall.torn THEN {0, 1, 2, 3, 5} ELSE {0}

\* the fields accessed by a step that the control thread stored to since the
\* call's last step: conflicting accesses that nothing orders
Conflicts(accessed) == accessed \cap DOMAIN pcall.torn

-----------------------------------------------------------------------------
(* Limiter (src/effects/Limiter.cpp) *)

\* Limiter.cpp:82-85
Limiter_setThreshold(l, newThreshold) ==
    [l EXCEPT !.threshold = StdMax(0, StdMin(Unit, newThreshold))]

\* Limiter.cpp:29-37
Limiter_calculateCoeffs(l) ==
    [l EXCEPT !.attackCoeff  = SmoothingCoeff(l.attackTimeMs, l.sampleRate),
              !.releaseCoeff = SmoothingCoeff(l.releaseTimeMs, l.sampleRate)]

\* Limiter.cpp:92-96: at least 0.1 ms
Limiter_setAttackTime(l, ms) ==
    Limiter_calculateCoeffs([l EXCEPT !.attackTimeMs = StdMax(1, ms)])

\* Limiter.cpp:103-107: at least 1.0 ms
Limiter_setReleaseTime(l, ms) ==
    Limiter_calculateCoeffs([l EXCEPT !.releaseTimeMs = StdMax(10, ms)])

\* the gain a disabled limiter is left with (Limiter.cpp:119), also the initial
\* one (Limiter.cpp:17)
LimiterUnity == Unit

\* Limiter.cpp:114-121
Limiter_setEnabled(l, isEnabled) ==
    IF isEnabled
      THEN [l EXCEPT !.limiterActive = TRUE]
      ELSE [l EXCEPT !.limiterActive = FALSE, !.currentGain = LimiterUnity]

\* Limiter.cpp:15-23; the fields the setters fill start as the zeroes of static
\* storage (main.cpp:41)
Limiter_Limiter(rate, thresh, attackMs, releaseMs) ==
    Limiter_setReleaseTime(
      Limiter_setAttackTime(
        Limiter_setThreshold(
          [sampleRate |-> rate, currentGain |-> LimiterUnity, limiterActive |-> FALSE,
           threshold |-> 0, attackTimeMs |-> 0, releaseTimeMs |-> 0,
           attackCoeff |-> 0, releaseCoeff |-> 0],
          thresh),
        attackMs),
      releaseMs)

\* Limiter.cpp:56-58; th is the pair of loads of threshold; TIME_EPSILON is
\* below the resolution
Limiter_targetGain(inputAbs, th) ==
    IF inputAbs <= th[1] THEN Unit ELSE Quot(th[2], inputAbs)

\* Limiter.cpp:71: currentGain = std::min(currentGain, 1.0f)
Limiter_releaseClamp(gain) == StdMin(gain, Unit)

\* Limiter.cpp:53-74, one iteration on the sample x: th, ac, rc are the loads
\* of threshold, attackCoeff and releaseCoeff, mem is currentGain in memory at
\* the start unless the control thread's store of theirs landed at position p
Limiter_iteration(x, th, ac, rc, mem, theirs, p) ==
    LET targetGain == Limiter_targetGain(Abs(x), th)
        cg1 == IF p = 0 THEN theirs ELSE mem
        cg2 == IF p = 1 THEN theirs ELSE cg1
        blend == IF targetGain < cg1
                   THEN Blend(ac[1], cg2, ac[2], targetGain)
                   ELSE Blend(rc[1], cg2, rc[2], targetGain)
        cg3 == IF p = 3 THEN theirs ELSE blend
        clamped == IF targetGain < cg1
                     THEN StdMax(cg3, targetGain)
                     ELSE Limiter_releaseClamp(cg3)
        cg4 == IF p = 5 THEN theirs ELSE clamped
    IN  [currentGain |-> cg4, out |-> Mul(x, cg4), attack |-> targetGain < cg1]

-----------------------------------------------------------------------------
(* NoiseGate (src/effects/NoiseGate.cpp) *)

\* NoiseGate.cpp:167-170
NoiseGate_setThreshold(g, newThreshold) ==
    [g EXCEPT !.threshold = StdMax(0, StdMin(Unit, newThreshold))]

\* NoiseGate.cpp:54-61
NoiseGate_calculateCoeffs(g) ==
    [g EXCEPT !.attackCoeff  = SmoothingCoeff(g.attackTimeMs, g.sampleRate),
              !.releaseCoeff = SmoothingCoeff(g.releaseTimeMs, g.sampleRate)]

\* NoiseGate.cpp:177-181: at least 0.1 ms
NoiseGate_setAttackTime(g, ms) ==
    NoiseGate_calculateCoeffs([g EXCEPT !.attackTimeMs = StdMax(1, ms)])

\* NoiseGate.cpp:188-192: at least 1.0 ms
NoiseGate_setReleaseTime(g, ms) ==
    NoiseGate_calculateCoeffs([g EXCEPT !.releaseTimeMs = StdMax(10, ms)])

\* NoiseGate.cpp:157-161; bandEnergies is kept as the sum of the band energies
NoiseGate_reset(g) == [g EXCEPT !.bandEnergies = 0, !.currentGain = 0]

\* AudioEffect.h:61-68 on a NoiseGate
NoiseGate_setEnabled(g, isEnabled) ==
    IF isEnabled
      THEN [g EXCEPT !.effectActive = TRUE]
      ELSE NoiseGate_reset([g EXCEPT !.effectActive = FALSE])

\* NoiseGate.cpp:12-32; alloc tells which of fftw_alloc_real, fftw_alloc_complex
\* and fftw_plan_dft_r2c_1d returned a resource.  AudioEffect(rate) leaves
\* effectActive false (AudioEffect.h:36), and the store at line 28 repeats it.
NoiseGate_NoiseGate(rate, size, thresh, attackMs, releaseMs, alloc) ==
    NoiseGate_reset(
      [ NoiseGate_setReleaseTime(
          NoiseGate_setAttackTime(
            NoiseGate_setThreshold(
              [sampleRate |-> rate, effectActive |-> FALSE, fftSize |-> size,
               currentGain |-> 0, bandEnergies |-> 0,
               threshold |-> 0, attackTimeMs |-> 0, releaseTimeMs |-> 0,
               attackCoeff |-> 0, releaseCoeff |-> 0,
               timeData |-> FALSE, frequencyData |-> FALSE, fftPlan |-> FALSE],
              thresh),
            attackMs),
          releaseMs)
        EXCEPT !.timeData = alloc.timeData,
               !.frequencyData = alloc.frequencyData,
               !.fftPlan = alloc.fftPlan,
               !.effectActive = FALSE ])

-----------------------------------------------------------------------------
(* ThreeBandEQ (src/effects/ThreeBandEQ.cpp).  The transform is written out  *)
(* for fftSize = 4 (hop size 2), where the Hann window of calculateWindow is *)
(* 0, 3/4, 3/4, 0.  window holds quarters; outputOverlapBuffer and timeData  *)
(* hold numerators over EqScale.                                             *)

EqScale == 16 * Unit

\* ThreeBandEQ.cpp:301-307
ThreeBandEQ_setBandGain(e, bandIndex, gain) ==
    IF bandIndex < NUM_EQ_BANDS
      THEN [e EXCEPT !.bandGains[bandIndex + 1] = StdMax(0, StdMin(6 * Unit, gain))]
      ELSE e

\* ThreeBandEQ.cpp:309-312
ThreeBandEQ_getBandGain(e, bandIndex) ==
    IF bandIndex < NUM_EQ_BANDS THEN e.bandGains[bandIndex + 1] ELSE Unit

\* ThreeBandEQ.cpp:323-326
ThreeBandEQ_getBandCutoff(e, bandIndex) ==
    IF bandIndex < NUM_EQ_BANDS THEN e.bandCutoffs[bandIndex + 1] ELSE 0

\* ThreeBandEQ.cpp:314-321 with the frequency stored as it comes
ThreeBandEQ_setBandCutoffUnclamped(e, bandIndex, frequency) ==
    IF bandIndex < NUM_EQ_BANDS
      THEN [e EXCEPT !.bandCutoffs[bandIndex + 1] = frequency]
      ELSE e
\* ThreeBandEQ.cpp:314-321
ThreeBandEQ_setBandCutoff(e, bandIndex, frequency) ==
    IF bandIndex < NUM_EQ_BANDS
      THEN [e EXCEPT !.bandCutoffs[bandIndex + 1] =
                        StdMax(20, StdMin(e.sampleRate \div 2, frequency))]
      ELSE e

\* ThreeBandEQ.cpp:285-295
ThreeBandEQ_reset(e) ==
    [e EXCEPT !.inputBufferInternal = IF @ = <<>> THEN @ ELSE [i \in 1..Len(@) |-> 0],
              !.outputOverlapBuffer = IF @ = <<>> THEN @ ELSE [i \in 1..Len(@) |-> 0]]

\* AudioEffect.h:61-68 on a ThreeBandEQ
ThreeBandEQ_setEnabled(e, isEnabled) ==
    IF isEnabled
      THEN [e EXCEPT !.effectActive = TRUE]
      ELSE ThreeBandEQ_reset([e EXCEPT !.effectActive = FALSE])

\* ThreeBandEQ.cpp:114-126 for fftSize = 4, in quarters
ThreeBandEQ_calculateWindow(size) == IF size = 4 THEN <<0, 3, 3, 0>> ELSE [i \in 1..size |-> 0]

\* ThreeBandEQ.cpp:35-47: the default cutoffs and gains
ThreeBandEQ_defaults(e) ==
    LET c0 == ThreeBandEQ_setBandCutoff(e, 0, 250)
        c1 == ThreeBandEQ_setBandCutoff(c0, 1, 4000)
        c2 == ThreeBandEQ_setBandCutoff(c1, 2, e.sampleRate \div 2)
        g0 == ThreeBandEQ_setBandGain(c2, 0, Unit)
        g1 == ThreeBandEQ_setBandGain(g0, 1, Unit)
    IN  ThreeBandEQ_setBandGain(g1, 2, Unit)

\* ThreeBandEQ.cpp:19-99; alloc tells which of the two buffers and the two
\* plans were obtained and whether the vectors could be resized.  After a failed setup the handles that were obtained
\* are released but keep their values (lines 90-93).
ThreeBandEQ_ThreeBandEQ(rate, frameSize, alloc) ==
    LET blank == [sampleRate |-> rate, effectActive |-> FALSE,
                  hopSize |-> frameSize, fftSize |-> frameSize * 2,
                  timeData |-> FALSE, frequencyData |-> FALSE,
                  fftForwardPlan |-> FALSE, fftInversePlan |-> FALSE,
                  bandCutoffs |-> <<0, 0, 0>>, bandGains |-> <<0, 0, 0>>,
                  window |-> <<>>, inputBufferInternal |-> <<>>,
                  outputOverlapBuffer |-> <<>>]
        buffers == alloc.timeData /\ alloc.frequencyData
        setupOk == buffers /\ alloc.fftForwardPlan /\ alloc.fftInversePlan /\ alloc.vectors
        tried == [ThreeBandEQ_defaults(blank) EXCEPT
                    !.timeData = alloc.timeData,
                    !.frequencyData = alloc.frequencyData,
                    !.fftForwardPlan = buffers /\ alloc.fftForwardPlan,
                    !.fftInversePlan = buffers /\ alloc.fftInversePlan]
    IN  IF frameSize = 0 THEN blank
        ELSE IF setupOk
          THEN ThreeBandEQ_reset(
                 [tried EXCEPT
                    !.window = ThreeBandEQ_calculateWindow(frameSize * 2),
                    !.inputBufferInternal = [i \in 1..(frameSize * 2) |-> 0],
                    !.outputOverlapBuffer = [i \in 1..(frameSize * 2 - frameSize) |-> 0]])
          ELSE tried

-----------------------------------------------------------------------------
(* The effect objects as constructed *)

\* every resource of the gate was obtained
GateAllocated == [timeData |-> TRUE, frequencyData |-> TRUE, fftPlan |-> TRUE]
\* every resource of the EQ was obtained
EqAllocated ==
    [timeData |-> TRUE, frequencyData |-> TRUE,
     fftForwardPlan |-> TRUE, fftInversePlan |-> TRUE, vectors |-> TRUE]

\* NoiseGate.h:81-85: thresh 0.1, attack 5 ms, release 50 ms
NewNoiseGate(alloc) ==
    NoiseGate_NoiseGate(SAMPLE_RATE, GateFftSize, Unit \div 10, 50, 500, alloc)

\* ThreeBandEQ.h:82-83
NewThreeBandEQ(alloc) == ThreeBandEQ_ThreeBandEQ(SAMPLE_RATE, EqHopSize, alloc)

\* Limiter.h:51-54: thresh 0.02, attack 5 ms, release 100 ms
NewLimiter == Limiter_Limiter(SAMPLE_RATE, (2 * Unit) \div 100, 50, 1000)

\* main.cpp:43-45
NewDeEsserSettings ==
    [enabled |-> FALSE, reductionDB |-> 6, startFreq |-> 4000, endFreq |-> 10000]

\* no call was made on any effect
NoEffectCalls ==
    /\ pcall = NoCall
    /\ fxn = [process |-> 0, control |-> 0]
    /\ fxh = [raced |-> {}, off |-> FALSE, reon |-> FALSE]

\* main.cpp:39-45: the globals, every resource obtained
EffectGlobals ==
    /\ noiseGate = NewNoiseGate(GateAllocated)
    /\ eq = NewThreeBandEQ(EqAllocated)
    /\ limiter = NewLimiter
    /\ deesserConfig = NewDeEsserSettings
    /\ subject = "chain"
    /\ NoEffectCalls

-----------------------------------------------------------------------------
(* The two threads that use an effect: the processing thread calls          *)
(* process() (main.cpp:156-166), the control thread calls the setters       *)
(* (GUIManager.cpp:196-283).                                                *)

\* blocks handed to process(): numFrames samples
Blocks == UNION {[1..n -> SampleValues] : n \in 0..MaxFrames}

\* what the variables of the queues and of main.cpp do in a step of an effect
EffectFrame == UNCHANGED <<qvars, cvars, pvars, hvars, deesserConfig, subject>>

\* a process() call is entered
EnterProcess(fx) ==
    /\ subject = fx
    /\ pcall.pc = "idle"
    /\ fxn.process < MaxProcessCalls
    /\ fxn' = [fxn EXCEPT !.process = @ + 1]

\* the control thread calls a setter
EnterSetter(fx) ==
    /\ subject = fx
    /\ fxn.control < MaxControlCalls
    /\ fxn' = [fxn EXCEPT !.control = @ + 1]

\* the order of the setEnabled calls made since the last process() call that
\* was entered with the effect enabled: off after a setEnabled(false), reon
\* after a setEnabled(true) that followed one
NoteEnabled(isEnabled) ==
    IF isEnabled
      THEN [fxh EXCEPT !.reon = fxh.off]
      ELSE [fxh EXCEPT !.off = TRUE, !.reon = FALSE]

\* a process() call is entered and loads the enabled flag
NoteEntered(active) ==
    IF active THEN [fxh EXCEPT !.off = FALSE, !.reon = FALSE] ELSE fxh

\* Limiter.cpp:45-49: the entry of process(); a disabled limiter or an empty
\* block: copy and return
LimiterEnter ==
    /\ EnterProcess("Limiter")
    /\ \E input \in Blocks :
         LET active == limiter.limiterActive
             bypass == ~active \/ Len(input) = 0
         IN  /\ pcall' = [fx |-> "Limiter",
                          pc |-> IF bypass THEN "idle" ELSE "loop",
                          input |-> input,
                          output |-> IF bypass THEN CopyBlock(input) ELSE <<>>,
                          active |-> active,
                          path |-> IF bypass THEN "bypass" ELSE "limit",
                          targetGain |-> 0, torn |-> NoTorn]
             /\ fxh' = NoteEntered(active)
    /\ UNCHANGED <<noiseGate, eq, limiter>>
    /\ EffectFrame

\* Limiter.cpp:51-75: one iteration of the loop; after the last one process()
\* returns
LimiterLoop ==
    /\ pcall.fx = "Limiter" /\ pcall.pc = "loop"
    /\ LET i == Len(pcall.output) + 1
           mem == IF "currentGain" \in DOMAIN pcall.torn
                    THEN pcall.torn["currentGain"] ELSE limiter.currentGain
       IN  \E th \in Loads(limiter, "threshold"),
              ac \in Loads(limiter, "attackCoeff"),
              rc \in Loads(limiter, "releaseCoeff"),
              p \in GainStoreLands(limiter) :
             LET r == Limiter_iteration(pcall.input[i], th, ac, rc,
                                        mem, limiter.currentGain, p)
             IN  /\ limiter' = [limiter EXCEPT !.currentGain = r.currentGain]
                 /\ pcall' = [pcall EXCEPT
                                !.output = Append(@, r.out),
                                !.pc = IF i = Len(pcall.input) THEN "idle" ELSE "loop",
                                !.torn = NoTorn]
                 /\ fxh' = [fxh EXCEPT !.raced = @ \cup
                              Conflicts({"threshold", "currentGain",
                                         IF r.attack THEN "attackCoeff" ELSE "releaseCoeff"})]
    /\ UNCHANGED <<noiseGate, eq, fxn>>
    /\ EffectFrame

\* GUIManager.cpp:265-268: limiter.setThreshold
CtlLimiterSetThreshold ==
    /\ EnterSetter("Limiter")
    /\ \E v \in ThresholdInputs : limiter' = Limiter_setThreshold(limiter, v)
    /\ pcall' = [pcall EXCEPT !.torn = Tear({"threshold"}, limiter)]
    /\ UNCHANGED <<noiseGate, eq, fxh>>
    /\ EffectFrame

\* GUIManager.cpp:271-274: limiter.setAttackTime, which stores the time and both
\* coefficients
CtlLimiterSetAttackTime ==
    /\ EnterSetter("Limiter")
    /\ \E ms \in TimeInputs : limiter' = Limiter_setAttackTime(limiter, ms)
    /\ pcall' = [pcall EXCEPT !.torn = Tear({"attackTimeMs", "attackCoeff", "releaseCoeff"}, limiter)]
    /\ UNCHANGED <<noiseGate, eq, fxh>>
    /\ EffectFrame

\* GUIManager.cpp:276-279: limiter.setReleaseTime
CtlLimiterSetReleaseTime ==
    /\ EnterSetter("Limiter")
    /\ \E ms \in TimeInputs : limiter' = Limiter_setReleaseTime(limiter, ms)
    /\ pcall' = [pcall EXCEPT !.torn = Tear({"releaseTimeMs", "attackCoeff", "releaseCoeff"}, limiter)]
    /\ UNCHANGED <<noiseGate, eq, fxh>>
    /\ EffectFrame

\* GUIManager.cpp:260-263: limiter.setEnabled; the store to the atomic flag
\* conflicts with nothing, the store to currentGain of a disable does
CtlLimiterSetEnabled ==
    /\ EnterSetter("Limiter")
    /\ \E isEnabled \in BOOLEAN :
         /\ limiter' = Limiter_setEnabled(limiter, isEnabled)
         /\ pcall' = [pcall EXCEPT !.torn =
                        IF isEnabled THEN @ ELSE Tear({"currentGain"}, limiter)]
         /\ fxh' = NoteEnabled(isEnabled)
    /\ UNCHANGED <<noiseGate, eq>>
    /\ EffectFrame

-----------------------------------------------------------------------------
(* NoiseGate::process.  The transform is written out for fftSize = 8: with  *)
(* a = x0 - x4, b = x1 - x5, c = x2 - x6, d = x3 - x7 the energies of bins 1 *)
(* and 3 add up to 2 (a^2 + b^2 + c^2 + d^2), and bin 2 is                   *)
(* (x0 - x2 + x4 - x6) - i (x1 - x3 + x5 - x7).                              *)

\* NoiseGate.cpp:91-96: timeData, the block cut or zero-padded to fftSize
NoiseGate_timeData(g, inputBuffer) ==
    [i \in 1..g.fftSize |-> IF i <= Len(inputBuffer) THEN inputBuffer[i] ELSE 0]

\* NoiseGate.cpp:63-87 and 109-113: the energies of bins 1 .. fftSize/2 - 1, each
\* added to one band, and the bands added up
NoiseGate_totalEnergy(td) ==
    LET a == td[1] - td[5]
        b == td[2] - td[6]
        c == td[3] - td[7]
        d == td[4] - td[8]
        re2 == td[1] - td[3] + td[5] - td[7]
        im2 == td[4] - td[2] + td[8] - td[6]
    IN  2 * (a * a + b * b + c * c + d * d) + re2 * re2 + im2 * im2

\* NoiseGate.cpp:115-119 without the early return: avgEnergy / fftSize against
\* threshold * threshold; both sides are multiplied by NUM_BANDS * fftSize
NoiseGate_aboveThreshold(g, inputBuffer, th) ==
    NoiseGate_totalEnergy(NoiseGate_timeData(g, inputBuffer)) > NUM_BANDS * g.fftSize * th * th

\* NoiseGate.cpp:89-120 when the resources are there; without a plan 1.0f
NoiseGate_determineTargetGain(g, inputBuffer, th) ==
    IF ~g.fftPlan THEN Unit
    ELSE IF NoiseGate_aboveThreshold(g, inputBuffer, th) THEN Unit ELSE 0

\* NoiseGate.cpp:142-153, one iteration on the sample x, as Limiter_iteration
NoiseGate_iteration(x, targetGain, ac, rc, mem, theirs, p) ==
    LET cg1 == IF p = 0 THEN theirs ELSE mem
        cg2 == IF p = 1 THEN theirs ELSE cg1
        blend == IF targetGain > cg1
                   THEN Blend(ac[1], cg2, ac[2], targetGain)
                   ELSE Blend(rc[1], cg2, rc[2], targetGain)
        cg3 == IF p = 3 THEN theirs ELSE blend
        clamped == IF targetGain > cg1
                     THEN StdMin(cg3, targetGain)
                     ELSE StdMax(cg3, targetGain)
        cg4 == IF p = 5 THEN theirs ELSE clamped
    IN  [currentGain |-> cg4, out |-> Mul(x, cg4), attack |-> targetGain > cg1]

\* NoiseGate.cpp:128-130: the entry of process(); a disabled gate or an empty
\* block: copy
NoiseGateEnter ==
    /\ EnterProcess("NoiseGate")
    /\ \E input \in Blocks :
         LET active == noiseGate.effectActive
             bypass == ~active \/ Len(input) = 0
         IN  /\ pcall' = [fx |-> "NoiseGate",
                          pc |-> IF bypass THEN "reload" ELSE "target",
                          input |-> input,
                          output |-> IF bypass THEN CopyBlock(input) ELSE <<>>,
                          active |-> active,
                          path |-> IF bypass THEN "bypass" ELSE "gate",
                          targetGain |-> 0, torn |-> NoTorn]
             /\ fxh' = NoteEntered(active)
    /\ UNCHANGED <<noiseGate, eq, limiter>>
    /\ EffectFrame

\* NoiseGate.cpp:131-135: the flag is loaded again; a disabled gate's gain is
\* set to 0; return
NoiseGateReload ==
    /\ pcall.fx = "NoiseGate" /\ pcall.pc = "reload"
    /\ IF noiseGate.effectActive
         THEN UNCHANGED <<noiseGate, fxh>>
         ELSE /\ noiseGate' = [noiseGate EXCEPT !.currentGain = 0]
              /\ fxh' = [fxh EXCEPT !.raced = @ \cup Conflicts({"currentGain"})]
    /\ pcall' = [pcall EXCEPT !.pc = "idle", !.torn = NoTorn]
    /\ UNCHANGED <<eq, limiter, fxn>>
    /\ EffectFrame

\* NoiseGate.cpp:138 (determineTargetGain, lines 89-120).  Line 91 fills
\* timeData and line 100 executes the plan into frequencyData: without the
\* buffer the call writes through a null pointer and does not return.
NoiseGateTarget ==
    /\ pcall.fx = "NoiseGate" /\ pcall.pc = "target"
    /\ IF ~noiseGate.timeData \/ (noiseGate.fftPlan /\ ~noiseGate.frequencyData)
         THEN /\ pcall' = [pcall EXCEPT !.pc = "crashed", !.path = "null", !.torn = NoTorn]
              /\ UNCHANGED <<noiseGate, fxh>>
         ELSE \E th \in Loads(noiseGate, "threshold") :
                /\ pcall' = [pcall EXCEPT
                               !.pc = "loop",
                               !.targetGain = NoiseGate_determineTargetGain(
                                                  noiseGate, pcall.input, th[1]),
                               !.torn = NoTorn]
                /\ noiseGate' = [noiseGate EXCEPT !.bandEnergies =
                                   IF noiseGate.fftPlan
                                     THEN NoiseGate_totalEnergy(
                                            NoiseGate_timeData(noiseGate, pcall.input))
                                     ELSE @]
                /\ fxh' = [fxh EXCEPT !.raced = @ \cup
                             Conflicts(IF noiseGate.fftPlan
                                         THEN {"threshold", "bandEnergies"} ELSE {})]
    /\ UNCHANGED <<eq, limiter, fxn>>
    /\ EffectFrame

\* NoiseGate.cpp:140-154: one iteration of the loop; after the last one
\* process() returns
NoiseGateLoop ==
    /\ pcall.fx = "NoiseGate" /\ pcall.pc = "loop"
    /\ LET i == Len(pcall.output) + 1
           mem == IF "currentGain" \in DOMAIN pcall.torn
                    THEN pcall.torn["currentGain"] ELSE noiseGate.currentGain
       IN  \E ac \in Loads(noiseGate, "attackCoeff"),
              rc \in Loads(noiseGate, "releaseCoeff"),
              p \in GainStoreLands(noiseGate) :
             LET r == NoiseGate_iteration(pcall.input[i], pcall.targetGain, ac, rc,
                                          mem, noiseGate.currentGain, p)
             IN  /\ noiseGate' = [noiseGate EXCEPT !.currentGain = r.currentGain]
                 /\ pcall' = [pcall EXCEPT
                                !.output = Append(@, r.out),
                                !.pc = IF i = Len(pcall.input) THEN "idle" ELSE "loop",
                                !.torn = NoTorn]
                 /\ fxh' = [fxh EXCEPT !.raced = @ \cup
                              Conflicts({"currentGain",
                                         IF r.attack THEN "attackCoeff" ELSE "releaseCoeff"})]
    /\ UNCHANGED <<eq, limiter, fxn>>
    /\ EffectFrame

\* GUIManager.cpp:205-208: noiseGate.setThreshold
CtlNoiseGateSetThreshold ==
    /\ EnterSetter("NoiseGate")
    /\ \E v \in ThresholdInputs : noiseGate' = NoiseGate_setThreshold(noiseGate, v)
    /\ pcall' = [pcall EXCEPT !.torn = Tear({"threshold"}, noiseGate)]
    /\ UNCHANGED <<eq, limiter, fxh>>
    /\ EffectFrame

\* GUIManager.cpp:210-213: noiseGate.setAttackTime
CtlNoiseGateSetAttackTime ==
    /\ EnterSetter("NoiseGate")
    /\ \E ms \in TimeInputs : noiseGate' = NoiseGate_setAttackTime(noiseGate, ms)
    /\ pcall' = [pcall EXCEPT !.torn =
                   Tear({"attackTimeMs", "attackCoeff", "releaseCoeff"}, noiseGate)]
    /\ UNCHANGED <<eq, limiter, fxh>>
    /\ EffectFrame

\* GUIManager.cpp:215-218: noiseGate.setReleaseTime
CtlNoiseGateSetReleaseTime ==
    /\ EnterSetter("NoiseGate")
    /\ \E ms \in TimeInputs : noiseGate' = NoiseGate_setReleaseTime(noiseGate, ms)
    /\ pcall' = [pcall EXCEPT !.torn =
                   Tear({"releaseTimeMs", "attackCoeff", "releaseCoeff"}, noiseGate)]
    /\ UNCHANGED <<eq, limiter, fxh>>
    /\ EffectFrame

\* GUIManager.cpp:200-203: noiseGate.setEnabled; a disable calls reset()
CtlNoiseGateSetEnabled ==
    /\ EnterSetter("NoiseGate")
    /\ \E isEnabled \in BOOLEAN :
         /\ noiseGate' = NoiseGate_setEnabled(noiseGate, isEnabled)
         /\ pcall' = [pcall EXCEPT !.torn =
                        IF isEnabled THEN @
                        ELSE Tear({"bandEnergies", "currentGain"}, noiseGate)]
         /\ fxh' = NoteEnabled(isEnabled)
    /\ UNCHANGED <<eq, limiter>>
    /\ EffectFrame

-----------------------------------------------------------------------------
(* ThreeBandEQ::process *)

\* (1 - cos(t * pi)) / 2 in hundredths, for t = num / den in 0 .. 1
RaisedCosine(num, den) ==
    <<0, 2, 10, 21, 35, 50, 65, 79, 90, 98, 100>>[((100 * num) \div den + 5) \div 10 + 1]

\* ThreeBandEQ.cpp:128-163; cut and g are the loaded cutoffs and gains.  The
\* transition around a cutoff c runs from 0.8 c to 1.2 c.
ThreeBandEQ_getSmoothGain(frequency, cut, g) ==
    LET f10 == 10 * frequency
        transition1Start == 8 * cut[1]
        transition1End   == 12 * cut[1]
        transition2Start == 8 * cut[2]
        transition2End   == 12 * cut[2]
        mix(from, to, lo, hi) ==
            LET t == RaisedCosine(f10 - lo, hi - lo)
            IN  (from * (100 - t) + to * t) \div 100
    IN  IF f10 < transition1Start THEN g[1]
        ELSE IF f10 > transition1End /\ f10 < transition2Start THEN g[2]
        ELSE IF f10 > transition2End THEN g[3]
        ELSE IF f10 >= transition1Start /\ f10 <= transition1End
          THEN mix(g[1], g[2], transition1Start, transition1End)
          ELSE mix(g[2], g[3], transition2Start, transition2End)

\* ThreeBandEQ.cpp:236-243: the history is shifted by one hop and the block
\* is appended
ThreeBandEQ_shiftIn(e, inputBuffer) ==
    [e EXCEPT !.inputBufferInternal =
        SubSeq(@, e.hopSize + 1, e.fftSize) \o inputBuffer]

\* ThreeBandEQ.cpp:246-261 for fftSize = 4: the windowed history, its
\* transform, the gains of applyEQGain (lines 165-197) on bins 0, 1 and 2, and
\* the inverse transform; the result is timeData / fftSize over EqScale
ThreeBandEQ_filtered(e, cut, g) ==
    LET t == [i \in 1..4 |-> e.window[i] * e.inputBufferInternal[i]]
        x0 == t[1] + t[2] + t[3] + t[4]
        re1 == t[1] - t[3]
        im1 == t[4] - t[2]
        x2 == t[1] - t[2] + t[3] - t[4]
        g0 == g[1]
        g1 == ThreeBandEQ_getSmoothGain((1 * e.sampleRate) \div e.fftSize, cut, g)
        g2 == g[3]
    IN  << g0 * x0 + 2 * g1 * re1 + g2 * x2,
           g0 * x0 - 2 * g1 * im1 - g2 * x2,
           g0 * x0 - 2 * g1 * re1 + g2 * x2,
           g0 * x0 + 2 * g1 * im1 - g2 * x2 >>

\* static_cast<float> of a double held as a numerator over EqScale
EqToFloat(v) ==
    IF v < 0 THEN -((2 * (-v) + EqScale) \div (2 * EqScale))
    ELSE (2 * v + EqScale) \div (2 * EqScale)

\* ThreeBandEQ.cpp:264-282: overlap-add; y is the filtered frame.  The result
\* is the new outputOverlapBuffer and the output block.
ThreeBandEQ_overlapAdd(e, y) ==
    LET tail == e.outputOverlapBuffer
        keep == e.fftSize - e.hopSize
        added == [i \in 1..keep |-> tail[i] + y[i]]
        shifted == SubSeq(added, e.hopSize + 1, keep)
    IN  [outputOverlapBuffer |-> shifted \o SubSeq(y, keep + 1, e.fftSize),
         out |-> [i \in 1..e.hopSize |-> EqToFloat(added[i])]]

\* ThreeBandEQ.cpp:226-228: a resource is missing or a buffer has the wrong size
ThreeBandEQ_unusable(e) ==
    \/ ~e.fftForwardPlan \/ ~e.fftInversePlan \/ ~e.timeData \/ ~e.frequencyData
    \/ Len(e.inputBufferInternal) # e.fftSize
    \/ Len(e.outputOverlapBuffer) # e.fftSize - e.hopSize
    \/ Len(e.window) # e.fftSize

\* ThreeBandEQ.cpp:222 with the history cleared as well
ThreeBandEQ_mismatchClears(e) == ThreeBandEQ_reset(e)
\* ThreeBandEQ.cpp:219-224: what a call of the wrong size leaves of the object
ThreeBandEQ_mismatch(e) == e

\* ThreeBandEQ.cpp:205-233: the entry of process().  A disabled EQ or an empty
\* block: copy; a block that is not one hop, or an unusable object: zeroes,
\* return.
ThreeBandEQEnter ==
    /\ EnterProcess("ThreeBandEQ")
    /\ \E input \in Blocks :
         LET active == eq.effectActive
             bypass == ~active \/ Len(input) = 0
             wrong  == Len(input) # eq.hopSize
             path   == IF bypass THEN "bypass"
                       ELSE IF wrong THEN "mismatch"
                       ELSE IF ThreeBandEQ_unusable(eq) THEN "unusable"
                       ELSE "filter"
         IN  /\ pcall' = [fx |-> "ThreeBandEQ",
                          pc |-> CASE path = "bypass" -> "reload"
                                   [] path = "filter" -> "shift"
                                   [] OTHER -> "idle",
                          input |-> input,
                          output |-> CASE path = "bypass" -> CopyBlock(input)
                                       [] path = "filter" -> <<>>
                                       [] OTHER -> [i \in 1..Len(input) |-> 0],
                          active |-> active, path |-> path,
                          targetGain |-> 0, torn |-> NoTorn]
             /\ eq' = IF path = "mismatch" THEN ThreeBandEQ_mismatch(eq) ELSE eq
             /\ fxh' = NoteEntered(active)
    /\ UNCHANGED <<noiseGate, limiter>>
    /\ EffectFrame

\* ThreeBandEQ.cpp:212-216: the flag is loaded again; a disabled EQ is reset;
\* return
ThreeBandEQReload ==
    /\ pcall.fx = "ThreeBandEQ" /\ pcall.pc = "reload"
    /\ IF eq.effectActive
         THEN UNCHANGED <<eq, fxh>>
         ELSE /\ eq' = ThreeBandEQ_reset(eq)
              /\ fxh' = [fxh EXCEPT !.raced = @ \cup
                           Conflicts({"inputBufferInternal", "outputOverlapBuffer"})]
    /\ pcall' = [pcall EXCEPT !.pc = "idle", !.torn = NoTorn]
    /\ UNCHANGED <<noiseGate, limiter, fxn>>
    /\ EffectFrame

\* ThreeBandEQ.cpp:236-243
ThreeBandEQShift ==
    /\ pcall.fx = "ThreeBandEQ" /\ pcall.pc = "shift"
    /\ eq' = ThreeBandEQ_shiftIn(eq, pcall.input)
    /\ pcall' = [pcall EXCEPT !.pc = "ola", !.torn = NoTorn]
    /\ fxh' = [fxh EXCEPT !.raced = @ \cup Conflicts({"inputBufferInternal"})]
    /\ UNCHANGED <<noiseGate, limiter, fxn>>
    /\ EffectFrame

\* ThreeBandEQ.cpp:246-282; return
ThreeBandEQOverlapAdd ==
    /\ pcall.fx = "ThreeBandEQ" /\ pcall.pc = "ola"
    /\ \E cut \in Loads(eq, "bandCutoffs"), g \in Loads(eq, "bandGains") :
         LET r == ThreeBandEQ_overlapAdd(eq, ThreeBandEQ_filtered(eq, cut[1], g[1]))
         IN  /\ eq' = [eq EXCEPT !.outputOverlapBuffer = r.outputOverlapBuffer]
             /\ pcall' = [pcall EXCEPT !.output = r.out, !.pc = "idle", !.torn = NoTorn]
    /\ fxh' = [fxh EXCEPT !.raced = @ \cup
                 Conflicts({"bandCutoffs", "bandGains", "inputBufferInternal",
                            "outputOverlapBuffer"})]
    /\ UNCHANGED <<noiseGate, limiter, fxn>>
    /\ EffectFrame

\* GUIManager.cpp:233-250: eq.setBandGain
CtlEqSetBandGain ==
    /\ EnterSetter("ThreeBandEQ")
    /\ \E bandIndex \in BandInputs, gain \in GainInputs :
         eq' = ThreeBandEQ_setBandGain(eq, bandIndex, gain)
    /\ pcall' = [pcall EXCEPT !.torn = Tear({"bandGains"}, eq)]
    /\ UNCHANGED <<noiseGate, limiter, fxh>>
    /\ EffectFrame

\* ThreeBandEQ.h:128: eq.setBandCutoff
CtlEqSetBandCutoff ==
    /\ EnterSetter("ThreeBandEQ")
    /\ \E bandIndex \in BandInputs, frequency \in CutoffInputs :
         eq' = ThreeBandEQ_setBandCutoff(eq, bandIndex, frequency)
    /\ pcall' = [pcall EXCEPT !.torn = Tear({"bandCutoffs"}, eq)]
    /\ UNCHANGED <<noiseGate, limiter, fxh>>
    /\ EffectFrame

\* GUIManager.cpp:228-231: eq.setEnabled; a disable calls reset()
CtlEqSetEnabled ==
    /\ EnterSetter("ThreeBandEQ")
    /\ \E isEnabled \in BOOLEAN :
         /\ eq' = ThreeBandEQ_setEnabled(eq, isEnabled)
         /\ pcall' = [pcall EXCEPT !.torn =
                        IF isEnabled THEN @
                        ELSE Tear({"inputBufferInternal", "outputOverlapBuffer"}, eq)]
         /\ fxh' = NoteEnabled(isEnabled)
    /\ UNCHANGED <<noiseGate, limiter>>
    /\ EffectFrame

-----------------------------------------------------------------------------
(* Client threads: any code that calls a BufferQueue (BufferQueue.h:44-63) *)

ClientPush(t) ==
    /\ role[t] \in {"any", "producer"}
    /\ nCalls < MaxCalls
    /\ Call(t, "push", "q", nextBlock)
    /\ nextBlock' = nextBlock + 1
    /\ nCalls' = nCalls + 1
    /\ UNCHANGED <<qvars, buf, ret, role, pvars, hvars>>
    /\ UNCHANGED fvars

ClientPop(t) ==
    /\ role[t] \in {"any", "consumer"}
    /\ nCalls < MaxCalls
    /\ Call(t, "pop", "q", NoBlock)
    /\ nCalls' = nCalls + 1
    /\ UNCHANGED <<qvars, buf, ret, role, nextBlock, pvars, hvars>>
    /\ UNCHANGED fvars

ClientSetDone(t) ==
    /\ role[t] \in {"any", "closer"}
    /\ nCalls < MaxCalls
    /\ Call(t, "setDone", "q", NoBlock)
    /\ nCalls' = nCalls + 1
    /\ UNCHANGED <<qvars, buf, ret, role, nextBlock, pvars, hvars>>
    /\ UNCHANGED fvars

\* BufferQueue::BufferQueue (BufferQueue.cpp:3-7): empty, done false
NewQueues(qs, cap) ==
    /\ bufferQueue   = [q \in qs |-> <<>>]
    /\ queueCapacity = [q \in qs |-> cap]
    /\ done          = [q \in qs |-> FALSE]
    /\ mtx           = [q \in qs |-> NoThread]
    /\ queueHasData  = [q \in qs |-> {}]
    /\ queueHasSpace = [q \in qs |-> {}]
    /\ pushed        = [q \in qs |-> <<>>]
    /\ popped        = [q \in qs |-> <<>>]

NewThreads(roles) ==
    /\ role   = roles
    /\ pc     = [t \in DOMAIN roles |-> "idle"]
    /\ op     = [t \in DOMAIN roles |-> "none"]
    /\ opq    = [t \in DOMAIN roles |-> "none"]
    /\ arg    = [t \in DOMAIN roles |-> NoBlock]
    /\ buf    = [t \in DOMAIN roles |-> NoBlock]
    /\ ret    = [t \in DOMAIN roles |-> "none"]
    /\ nCalls = 0
    /\ passDone = [t \in DOMAIN roles |-> FALSE]
    /\ waitSnap = [t \in DOMAIN roles |-> [held |-> <<>>, pops |-> 0]]
    /\ nextBlock = 1

NoPipeline ==
    /\ at = [t \in {} |-> "none"]
    /\ running = TRUE
    /\ streamRunning = FALSE
    /\ nCallbacks = 0
    /\ played = <<>>

\* three threads that each call push, pop and setDone in any order
AnyRoles == [t \in {"t1", "t2", "t3"} |-> "any"]
\* one producer, one consumer, and a thread that shuts the queue down
SpscRoles == ("prod" :> "producer") @@ ("cons" :> "consumer") @@ ("ctl" :> "closer")

Init ==
    /\ \E cap \in 1..MaxCapacity : NewQueues({"q"}, cap)
    /\ NewThreads(AnyRoles)
    /\ NoPipeline
    /\ EffectGlobals

Next ==
    \/ \E t \in Threads : ClientPush(t)
    \/ \E t \in Threads : ClientPop(t)
    \/ \E t \in Threads : ClientSetDone(t)
    \/ \E t \in Threads : PushLock(t)
    \/ \E t \in Threads : PushPred(t)
    \/ \E t \in Threads : PushBlock(t)
    \/ \E t \in Threads : PushChk(t)
    \/ \E t \in Threads : PushNotify(t)
    \/ \E t \in Threads : PopLock(t)
    \/ \E t \in Threads : PopPred(t)
    \/ \E t \in Threads : PopBlock(t)
    \/ \E t \in Threads : PopChk(t)
    \/ \E t \in Threads : PopNotify(t)
    \/ \E t \in Threads : SdStore(t)
    \/ \E t \in Threads : SdNotifyData(t)
    \/ \E t \in Threads : SdNotifySpace(t)
    \/ \E t \in Threads : SpuriousWake(t)

Spec == Init /\ [][Next]_vars

SpscInit ==
    /\ \E cap \in 1..MaxCapacity : NewQueues({"q"}, cap)
    /\ NewThreads(SpscRoles)
    /\ NoPipeline
    /\ EffectGlobals

SpscSpec == SpscInit /\ [][Next]_vars

\* the scheduler runs every thread whose call can go on, and a thread that
\* waits for a mutex which is free again and again gets it (strong fairness);
\* nothing obliges a client to make another call or a wait to end spuriously
SpscFair == SpscSpec /\ \A t \in DOMAIN SpscRoles : SF_vars(QueueStep(t))

-----------------------------------------------------------------------------
(* One effect, the processing thread calling process() on it and the        *)
(* control thread calling its setters, in any interleaving                   *)

Subjects == {"NoiseGate", "ThreeBandEQ", "Limiter"}

\* the effect is constructed, with any outcome of the allocations of the one
\* under test
FxInit ==
    /\ NewQueues({}, 0)
    /\ NewThreads([t \in {} |-> "none"])
    /\ NoPipeline
    /\ subject \in Subjects
    /\ \E a \in [DOMAIN GateAllocated -> BOOLEAN] :
         noiseGate = NewNoiseGate(IF subject = "NoiseGate" THEN a ELSE GateAllocated)
    /\ \E a \in [DOMAIN EqAllocated -> BOOLEAN] :
         eq = NewThreeBandEQ(IF subject = "ThreeBandEQ" THEN a ELSE EqAllocated)
    /\ limiter = NewLimiter
    /\ deesserConfig = NewDeEsserSettings
    /\ NoEffectCalls

FxNext ==
    \/ NoiseGateEnter \/ NoiseGateReload \/ NoiseGateTarget \/ NoiseGateLoop
    \/ CtlNoiseGateSetThreshold \/ CtlNoiseGateSetAttackTime
    \/ CtlNoiseGateSetReleaseTime \/ CtlNoiseGateSetEnabled
    \/ ThreeBandEQEnter \/ ThreeBandEQReload \/ ThreeBandEQShift
    \/ ThreeBandEQOverlapAdd
    \/ CtlEqSetBandGain \/ CtlEqSetBandCutoff \/ CtlEqSetEnabled
    \/ LimiterEnter \/ LimiterLoop
    \/ CtlLimiterSetThreshold \/ CtlLimiterSetAttackTime
    \/ CtlLimiterSetReleaseTime \/ CtlLimiterSetEnabled

FxSpec == FxInit /\ [][FxNext]_vars

-----------------------------------------------------------------------------
(* main.cpp: the real-time callback, the processing thread and main.        *)
(* A block is [id, n, ch]: the callback invocation that captured it, its    *)
(* number of samples and, for each channel of its interleaved frames, what  *)
(* the samples of that channel are: src is the captured channel they come   *)
(* from and via the effects they went through, in order.  The loops of the  *)
(* processing thread treat every frame alike, so one entry per channel      *)
(* stands for all frames.                                                   *)

\* static vector<float> fixedInBuffer(FRAMES_PER_BUFFER * NUM_CHANNELS + 64)
FixedInBufferSize == FRAMES_PER_BUFFER * NUM_CHANNELS + 64

\* frame counts the host engine hands to the callback (nFrames is an argument
\* of every invocation): the nominal block, a shorter one, and one too large
\* for fixedInBuffer
CallbackFrames ==
    {FRAMES_PER_BUFFER, FRAMES_PER_BUFFER \div 2, FixedInBufferSize \div NUM_CHANNELS + 1}

\* line 55: samplesAvailable = nFrames * NUM_CHANNELS
SamplesAvailable(nFrames) == nFrames * NUM_CHANNELS

\* lines 65-67: the samplesAvailable samples of the device's input, copied to
\* fixedInBuffer and from there to currentInput: the interleaved frames as the
\* device captured them
Captured(id, nFrames) ==
    [id |-> id, n |-> SamplesAvailable(nFrames),
     ch |-> [c \in 1..NUM_CHANNELS |-> [src |-> c, via |-> <<>>]]]

\* lines 58-62: the host calls audioCallback with more frames than fixedInBuffer
\* holds: silence, return 1 (a non-zero return makes the host stop the stream)
CbOversize(t) ==
    /\ at[t] = "cb_idle" /\ pc[t] = "idle"
    /\ streamRunning
    /\ nCallbacks < MaxCallbacks
    /\ \E nFrames \in CallbackFrames :
         /\ SamplesAvailable(nFrames) > FixedInBufferSize
         /\ played' = Append(played, [out |-> "silence", why |-> "oversize",
                                      n |-> SamplesAvailable(nFrames), code |-> 1])
    /\ nCallbacks' = nCallbacks + 1
    /\ streamRunning' = FALSE
    /\ UNCHANGED <<qvars, cvars, at, running, hvars>>
    /\ UNCHANGED fvars

\* lines 64-68: the host calls audioCallback; it pushes the captured block
CbPush(t) ==
    /\ at[t] = "cb_idle"
    /\ streamRunning
    /\ nCallbacks < MaxCallbacks
    /\ \E nFrames \in CallbackFrames :
         /\ SamplesAvailable(nFrames) <= FixedInBufferSize
         /\ Call(t, "push", "in", Captured(nCallbacks + 1, nFrames))
    /\ nCallbacks' = nCallbacks + 1
    /\ at' = [at EXCEPT ![t] = "cb_pop"]
    /\ UNCHANGED <<qvars, buf, ret, role, nCalls, nextBlock>>
    /\ UNCHANGED <<running, streamRunning, played, hvars>>
    /\ UNCHANGED fvars

\* lines 71-96 without the pop: the callback returns once it has pushed
CbPopSkipped(t) ==
    /\ at[t] = "cb_pop" /\ pc[t] = "idle"
    /\ at' = [at EXCEPT ![t] = "cb_idle"]
    /\ UNCHANGED <<qvars, cvars, running, streamRunning, nCallbacks, played, hvars>>
    /\ UNCHANGED fvars
\* lines 71-72: outputBuffer.pop(currentOutput); arg keeps the captured block,
\* whose size is samplesAvailable
CbPop(t) ==
    /\ at[t] = "cb_pop"
    /\ Call(t, "pop", "out", arg[t])
    /\ at' = [at EXCEPT ![t] = "cb_out"]
    /\ UNCHANGED <<qvars, buf, ret, role, nCalls, nextBlock>>
    /\ UNCHANGED <<running, streamRunning, nCallbacks, played, hvars>>
    /\ UNCHANGED fvars

\* lines 74-96: copy the popped block, or silence on a size mismatch or a failed
\* pop; return 0
CbOut(t) ==
    /\ at[t] = "cb_out" /\ pc[t] = "idle"
    /\ played' = Append(played,
         IF ret[t] = "ok"
           THEN IF buf[t].n = arg[t].n
                  THEN [out |-> "audio", why |-> "popped", n |-> arg[t].n, code |-> 0]
                  ELSE [out |-> "silence", why |-> "mismatch", n |-> arg[t].n, code |-> 0]
           ELSE [out |-> "silence", why |-> "underrun", n |-> arg[t].n, code |-> 0])
    /\ at' = [at EXCEPT ![t] = "cb_idle"]
    /\ UNCHANGED <<qvars, cvars, running, streamRunning, nCallbacks, hvars>>
    /\ UNCHANGED fvars

\* line 127: while (running.load())
ProcLoop(t) ==
    /\ at[t] = "p_loop"
    /\ IF running
         THEN /\ Call(t, "pop", "in", NoBlock)
              /\ at' = [at EXCEPT ![t] = "p_popped"]
         ELSE /\ pc[t] = "idle"
              /\ at' = [at EXCEPT ![t] = "p_exit"]
              /\ UNCHANGED <<pc, op, opq, arg>>
    /\ UNCHANGED <<qvars, buf, ret, role, nCalls, nextBlock>>
    /\ UNCHANGED <<running, streamRunning, nCallbacks, played, hvars>>
    /\ UNCHANGED fvars

\* line 128: !inputBuffer.pop(inputData)
PopFailedInverted(t) == ret[t] # "fail"
PopFailed(t) == ret[t] = "fail"

\* lines 128-132: the pop failed: break
ProcBreak(t) ==
    /\ at[t] = "p_popped" /\ pc[t] = "idle"
    /\ PopFailed(t)
    /\ at' = [at EXCEPT ![t] = "p_exit"]
    /\ UNCHANGED <<qvars, cvars, running, streamRunning, nCallbacks, played, hvars>>
    /\ UNCHANGED fvars

\* the samples an effect's process() writes for the samples x
Through(effect, x) == [x EXCEPT !.via = Append(@, effect)]

\* line 152 reading the last channel of each frame
MonoChannelLast(b) == b.ch[NUM_CHANNELS]
\* lines 151-153: monoChannel[i] = inputData[i * NUM_CHANNELS]
MonoChannel(b) == b.ch[1]

\* lines 156-166 with the limiter ahead of the EQ
EffectsChainLimiterFirst(monoChannel, deesserEnabled) ==
    LET gateOutput    == Through("NoiseGate", monoChannel)
        limiterOutput == Through("Limiter", gateOutput)
        eqOutput      == Through("ThreeBandEQ", limiterOutput)
    IN  IF deesserEnabled THEN Through("DeEsser", eqOutput) ELSE eqOutput
\* lines 156-166: noiseGate.process, eq.process, applyDeEsser when
\* deesserConfig.enabled, limiter.process; the result is limiterOutput
EffectsChain(monoChannel, deesserEnabled) ==
    LET gateOutput   == Through("NoiseGate", monoChannel)
        eqOutput     == Through("ThreeBandEQ", gateOutput)
        limiterInput == IF deesserEnabled THEN Through("DeEsser", eqOutput)
                                          ELSE eqOutput
    IN  Through("Limiter", limiterInput)

\* lines 139-177 with outputData always resized to a nominal block
ProcessBlockNominal(b, deesserEnabled) ==
    [id |-> b.id, n |-> FRAMES_PER_BUFFER * NUM_CHANNELS,
     ch |-> [c \in 1..NUM_CHANNELS |-> EffectsChain(MonoChannel(b), deesserEnabled)]]
\* lines 139-177: numFrames frames, their first channel through the chain, the
\* result copied to all NUM_CHANNELS channels of outputData
ProcessBlock(b, deesserEnabled) ==
    LET numFrames     == b.n \div NUM_CHANNELS
        limiterOutput == EffectsChain(MonoChannel(b), deesserEnabled)
    IN  [id |-> b.id, n |-> numFrames * NUM_CHANNELS,
         ch |-> [c \in 1..NUM_CHANNELS |-> limiterOutput]]

\* lines 133-205: an empty block or one that is no whole number of frames is
\* skipped (continue); any other goes through the chain and is pushed
ProcBlock(t) ==
    /\ at[t] = "p_popped" /\ pc[t] = "idle"
    /\ ~PopFailed(t)
    /\ IF buf[t].n = 0 \/ buf[t].n % NUM_CHANNELS # 0
         THEN UNCHANGED <<pc, op, opq, arg>>
         ELSE Call(t, "push", "out", ProcessBlock(buf[t], deesserConfig.enabled))
    /\ at' = [at EXCEPT ![t] = "p_loop"]
    /\ UNCHANGED <<qvars, buf, ret, role, nCalls, nextBlock>>
    /\ UNCHANGED <<running, streamRunning, nCallbacks, played, hvars>>
    /\ UNCHANGED fvars

\* line 251: audio.startStream(); when it fails main goes to lines 254-256,
\* the same shutdown steps
MainStart(t) ==
    /\ at[t] = "m_start"
    /\ \/ streamRunning' = TRUE  /\ at' = [at EXCEPT ![t] = "m_gui"]
       \/ UNCHANGED streamRunning /\ at' = [at EXCEPT ![t] = "m_shutdown"]
    /\ UNCHANGED <<qvars, cvars, running, nCallbacks, played, hvars>>
    /\ UNCHANGED fvars

\* lines 260-278, GUIManager.cpp:289-291: a frame of the GUI loop in which the
\* user clicks the de-esser checkbox, which is bound to deesserConfig.enabled
MainGuiDeEsser(t) ==
    /\ at[t] = "m_gui"
    /\ deesserConfig' = [deesserConfig EXCEPT !.enabled = ~@]
    /\ UNCHANGED <<qvars, cvars, pvars, hvars>>
    /\ UNCHANGED <<noiseGate, eq, limiter, pcall, subject, fxn, fxh>>

\* lines 260-278: the GUI loop ends when the user closes the window
MainGui(t) ==
    /\ at[t] = "m_gui"
    /\ at' = [at EXCEPT ![t] = "m_shutdown"]
    /\ UNCHANGED <<qvars, cvars, running, streamRunning, nCallbacks, played, hvars>>
    /\ UNCHANGED fvars

\* line 281: running.store(false)
MainShutdown(t) ==
    /\ at[t] = "m_shutdown"
    /\ running' = FALSE
    /\ at' = [at EXCEPT ![t] = "m_stop"]
    /\ UNCHANGED <<qvars, cvars, streamRunning, nCallbacks, played, hvars>>
    /\ UNCHANGED fvars

\* lines 284-287: stopStream() and closeStream(); closing the stream joins the
\* host's callback thread, so it returns only when no callback is in flight
MainStop(t) ==
    /\ at[t] = "m_stop"
    /\ at["cb"] = "cb_idle"
    /\ streamRunning' = FALSE
    /\ at' = [at EXCEPT ![t] = "m_done_in"]
    /\ UNCHANGED <<qvars, cvars, running, nCallbacks, played, hvars>>
    /\ UNCHANGED fvars

\* line 290: inputBuffer.setDone()
MainSetDoneIn(t) ==
    /\ at[t] = "m_done_in"
    /\ Call(t, "setDone", "in", NoBlock)
    /\ at' = [at EXCEPT ![t] = "m_done_out"]
    /\ UNCHANGED <<qvars, buf, ret, role, nCalls, nextBlock>>
    /\ UNCHANGED <<running, streamRunning, nCallbacks, played, hvars>>
    /\ UNCHANGED fvars

\* line 290: outputBuffer.setDone()
MainSetDoneOut(t) ==
    /\ at[t] = "m_done_out"
    /\ Call(t, "setDone", "out", NoBlock)
    /\ at' = [at EXCEPT ![t] = "m_join"]
    /\ UNCHANGED <<qvars, buf, ret, role, nCalls, nextBlock>>
    /\ UNCHANGED <<running, streamRunning, nCallbacks, played, hvars>>
    /\ UNCHANGED fvars

\* line 293: procThread.join() returns when processingThread has returned
MainJoin(t) ==
    /\ at[t] = "m_join" /\ pc[t] = "idle"
    /\ at["proc"] = "p_exit"
    /\ at' = [at EXCEPT ![t] = "m_end"]
    /\ UNCHANGED <<qvars, cvars, running, streamRunning, nCallbacks, played, hvars>>
    /\ UNCHANGED fvars

\* the steps of the three threads' own code that the scheduler must let happen:
\* not the host's next invocation of the callback, not the user closing the GUI
ProgStep(t) ==
    \/ CbPop(t) \/ CbOut(t)
    \/ ProcLoop(t) \/ ProcBreak(t) \/ ProcBlock(t)
    \/ MainShutdown(t) \/ MainStop(t) \/ MainSetDoneIn(t) \/ MainSetDoneOut(t)
    \/ MainJoin(t)

PipeRoles == [t \in {"main", "cb", "proc"} |-> "prog"]

\* lines 37-42 and 247: the globals are constructed, procThread is started, main
\* is about to start the stream
PipeInit ==
    /\ NewQueues({"in", "out"}, DEFAULT_CAPACITY)
    /\ NewThreads(PipeRoles)
    /\ at = ("main" :> "m_start") @@ ("cb" :> "cb_idle") @@ ("proc" :> "p_loop")
    /\ running = TRUE
    /\ streamRunning = FALSE
    /\ nCallbacks = 0
    /\ played = <<>>
    /\ EffectGlobals

\* a push never finds inputBuffer or outputBuffer full here (at most one block
\* is in flight and their capacity is DEFAULT_CAPACITY), so PushBlock, which
\* could never be taken, is not listed
PipeNext ==
    \/ CbOversize("cb") \/ CbPush("cb") \/ CbPop("cb") \/ CbOut("cb")
    \/ ProcLoop("proc") \/ ProcBreak("proc") \/ ProcBlock("proc")
    \/ MainStart("main") \/ MainGuiDeEsser("main") \/ MainGui("main")
    \/ MainShutdown("main")
    \/ MainStop("main") \/ MainSetDoneIn("main") \/ MainSetDoneOut("main")
    \/ MainJoin("main")
    \/ \E t \in Threads : PushLock(t)
    \/ \E t \in Threads : PushPred(t)
    \/ \E t \in Threads : PushChk(t)
    \/ \E t \in Threads : PushNotify(t)
    \/ \E t \in Threads : PopLock(t)
    \/ \E t \in Threads : PopPred(t)
    \/ \E t \in Threads : PopBlock(t)
    \/ \E t \in Threads : PopChk(t)
    \/ \E t \in Threads : PopNotify(t)
    \/ \E t \in Threads : SdStore(t)
    \/ \E t \in Threads : SdNotifyData(t)
    \/ \E t \in Threads : SdNotifySpace(t)
    \/ \E t \in Threads : SpuriousWake(t)

PipeSpec == PipeInit /\ [][PipeNext]_vars

\* every thread whose code can go on is run, and a thread waiting for a mutex
\* that is free again and again gets it
PipeFair ==
    PipeSpec /\ \A t \in DOMAIN PipeRoles : SF_vars(QueueStep(t) \/ ProgStep(t))

-----------------------------------------------------------------------------
(* The gate under a stream of whole blocks: the processing thread calls     *)
(* noiseGate.process() block after block (main.cpp:156), and the control    *)
(* thread sets the times between two calls.  fxh counts the blocks in a row *)
(* that had the same target gain and tells whether the first of them found  *)
(* the gain at the other end of its range.                                  *)

\* blocks of fftSize samples: silence, a tone in bin 2 at full level, and a
\* constant level (all of it in bin 0)
RunBlocks ==
    { [i \in 1..GateFftSize |-> 0],
      <<Unit, 0, -Unit, 0, Unit, 0, -Unit, 0>>,
      [i \in 1..GateFftSize |-> Unit] }

\* times the control thread sets, in tenths of a millisecond
RunTimeInputs == {0, 10, 50}

RECURSIVE NoiseGate_samples(_, _, _, _)
\* NoiseGate.cpp:140-154: the loop from sample i on, out being the output so far
NoiseGate_samples(g, inputBuffer, targetGain, out) ==
    IF Len(out) = Len(inputBuffer) THEN [gate |-> g, out |-> out]
    ELSE LET r == NoiseGate_iteration(inputBuffer[Len(out) + 1], targetGain,
                                      <<g.attackCoeff, g.attackCoeff>>,
                                      <<g.releaseCoeff, g.releaseCoeff>>,
                                      g.currentGain, g.currentGain, 0)
         IN  NoiseGate_samples([g EXCEPT !.currentGain = r.currentGain],
                               inputBuffer, targetGain, Append(out, r.out))

\* NoiseGate.cpp:138-154 with the release coefficient in both branches
NoiseGate_processReleaseOnly(g, inputBuffer) ==
    LET targetGain == NoiseGate_determineTargetGain(g, inputBuffer, g.threshold)
        r == NoiseGate_samples([g EXCEPT !.attackCoeff = g.releaseCoeff],
                               inputBuffer, targetGain, <<>>)
    IN  [gate |-> [r.gate EXCEPT !.attackCoeff = g.attackCoeff],
         out |-> r.out, targetGain |-> targetGain]
\* NoiseGate.cpp:126-155 on an enabled gate that has its resources, no setter
\* running during the call: the gate after the call, the output block and the
\* target gain of the block
NoiseGate_process(g, inputBuffer) ==
    LET targetGain == NoiseGate_determineTargetGain(g, inputBuffer, g.threshold)
        r == NoiseGate_samples(g, inputBuffer, targetGain, <<>>)
    IN  [gate |-> r.gate, out |-> r.out, targetGain |-> targetGain]

\* the rest of the program while the gate runs
GateRunFrame ==
    /\ UNCHANGED <<eq, limiter, fxn>>
    /\ EffectFrame

GateRunInit ==
    /\ NewQueues({}, 0)
    /\ NewThreads([t \in {} |-> "none"])
    /\ NoPipeline
    /\ subject = "NoiseGate"
    /\ noiseGate = NoiseGate_setEnabled(NewNoiseGate(GateAllocated), TRUE)
    /\ eq = NewThreeBandEQ(EqAllocated)
    /\ limiter = NewLimiter
    /\ deesserConfig = NewDeEsserSettings
    /\ pcall = NoCall
    /\ fxn = [process |-> 0, control |-> 0]
    /\ fxh = [targetGain |-> 0, blocks |-> 0, full |-> FALSE]

\* main.cpp:156: one noiseGate.process() call
GateRunProcess ==
    /\ \E input \in RunBlocks :
         LET r == NoiseGate_process(noiseGate, input)
         IN  /\ noiseGate' = r.gate
             /\ pcall' = [fx |-> "NoiseGate", pc |-> "idle", input |-> input,
                          output |-> r.out, active |-> TRUE, path |-> "gate",
                          targetGain |-> r.targetGain, torn |-> NoTorn]
             /\ fxh' = IF fxh.blocks > 0 /\ r.targetGain = fxh.targetGain
                          THEN [fxh EXCEPT !.blocks = StdMin(@ + 1, MaxRunBlocks)]
                          ELSE [targetGain |-> r.targetGain, blocks |-> 1,
                                full |-> noiseGate.currentGain = Unit - r.targetGain]
    /\ GateRunFrame

\* GUIManager.cpp:210-213 between two calls
GateRunSetAttackTime ==
    /\ \E ms \in RunTimeInputs : noiseGate' = NoiseGate_setAttackTime(noiseGate, ms)
    /\ fxh' = [fxh EXCEPT !.blocks = 0]
    /\ UNCHANGED pcall
    /\ GateRunFrame

\* GUIManager.cpp:215-218 between two calls
GateRunSetReleaseTime ==
    /\ \E ms \in RunTimeInputs : noiseGate' = NoiseGate_setReleaseTime(noiseGate, ms)
    /\ fxh' = [fxh EXCEPT !.blocks = 0]
    /\ UNCHANGED pcall
    /\ GateRunFrame

GateRunNext == GateRunProcess \/ GateRunSetAttackTime \/ GateRunSetReleaseTime

GateRunSpec == GateRunInit /\ [][GateRunNext]_vars

-----------------------------------------------------------------------------
(* applyDeEsser (src/effects/DeEsser.cpp).  The transforms are written out  *)
(* for a frame of 4 samples: bin 0, bin 1 with its mirror bin 3, and bin 2  *)
(* at half the sample rate.  A bin is <<real part, imaginary part>>; the    *)
(* factor of a bin is held in hundredths.  fxh holds the arguments and the  *)
(* frames of the last call.                                                 *)

\* constexpr int FRAME_SIZE (2048 in the source)
DeEsserFrameSize == 4

\* the arguments the callers pass: main.cpp:162 passes SAMPLE_RATE,
\* AudioTestRunner.cpp:64 the rate of the file it has read
DeEsserRates == {SAMPLE_RATE, 16000}
DeEsserStartFreqs == {0, 4000, 13000}
DeEsserEndFreqs == {10000, 12000, 24000}
DeEsserReductions == {0, 6, 20}
\* the samples of the vectors handed to applyDeEsser
DeEsserSampleValues == {-2 * Unit, Unit \div 4}

\* DeEsser.cpp:34: std::pow(10.0, -reductionDB / 20.0) in hundredths
DeEsser_reduction(reductionDB) ==
    CASE reductionDB <= 0  -> Unit
      [] reductionDB <= 3  -> (71 * Unit) \div 100
      [] reductionDB <= 6  -> (50 * Unit) \div 100
      [] reductionDB <= 12 -> (25 * Unit) \div 100
      [] reductionDB <= 20 -> (10 * Unit) \div 100
      [] OTHER             -> (3 * Unit) \div 100

\* DeEsser.cpp:45-52: the frame that starts at sample i (from 0), zero-padded
DeEsser_frame(samples, i) ==
    [j \in 0..(DeEsserFrameSize - 1) |->
        IF i + j + 1 <= Len(samples) THEN samples[i + j + 1] ELSE 0]

\* DeEsser.cpp:55: the forward transform of a real frame of 4 samples
DeEsser_forward(in) ==
    [k \in 0..(DeEsserFrameSize - 1) |->
        CASE k = 0 -> <<in[0] + in[1] + in[2] + in[3], 0>>
          [] k = 1 -> <<in[0] - in[2], in[3] - in[1]>>
          [] k = 2 -> <<in[0] - in[1] + in[2] - in[3], 0>>
          [] OTHER -> <<in[0] - in[2], in[1] - in[3]>>]

\* DeEsser.cpp:60-61: the frequency of bin j lies in [startFreq, endFreq]
DeEsser_inBand(j, sampleRate, startFreq, endFreq) ==
    /\ j * sampleRate >= startFreq * DeEsserFrameSize
    /\ j * sampleRate <= endFreq * DeEsserFrameSize

RECURSIVE DeEsser_gainLoop(_, _, _, _, _, _)
\* DeEsser.cpp:58-69 from bin j on: g.factor[k] is what bin k of out was
\* multiplied by so far, g.past whether out[FRAME_SIZE] was written, which is
\* one element past the end of out
DeEsser_gainLoop(g, j, sampleRate, startFreq, endFreq, reduction) ==
    IF j >= DeEsserFrameSize \div 2 THEN g
    ELSE LET mirror == DeEsserFrameSize - j
             scaled ==
                 [factor |-> [k \in DOMAIN g.factor |->
                                 LET once  == IF k = j THEN (g.factor[k] * reduction) \div Unit
                                              ELSE g.factor[k]
                                 IN  IF k = mirror THEN (once * reduction) \div Unit
                                     ELSE once],
                  past |-> g.past \/ mirror = DeEsserFrameSize]
         IN  DeEsser_gainLoop(
                 IF DeEsser_inBand(j, sampleRate, startFreq, endFreq) THEN scaled ELSE g,
                 j + 1, sampleRate, startFreq, endFreq, reduction)

\* DeEsser.cpp:72-77: the real part of the backward transform of the bins
\* out[k] * factor[k] / Unit, divided by FRAME_SIZE and rounded to a hundredth
DeEsser_backward(out, factor) ==
    LET re(k) == out[k][1] * factor[k]
        im(k) == out[k][2] * factor[k]
        den == DeEsserFrameSize * Unit
        round(v) == IF v < 0 THEN -((2 * (-v) + den) \div (2 * den))
                    ELSE (2 * v + den) \div (2 * den)
    IN  [n \in 0..(DeEsserFrameSize - 1) |->
            round(CASE n = 0 -> re(0) + re(1) + re(2) + re(3)
                    [] n = 1 -> re(0) - im(1) - re(2) + im(3)
                    [] n = 2 -> re(0) - re(1) + re(2) - re(3)
                    [] OTHER -> re(0) + im(1) - re(2) - im(3))]

\* DeEsser.cpp:45-78: one frame; the bins before the gain loop, the factor of
\* each bin, and the samples that are stored back
DeEsser_oneFrame(samples, i, sampleRate, startFreq, endFreq, reduction) ==
    LET out == DeEsser_forward(DeEsser_frame(samples, i))
        g == DeEsser_gainLoop(
                 [factor |-> [k \in 0..(DeEsserFrameSize - 1) |-> Unit], past |-> FALSE],
                 0, sampleRate, startFreq, endFreq, reduction)
        in == DeEsser_backward(out, g.factor)
        frameLength == StdMin(DeEsserFrameSize, Len(samples) - i)
    IN  [out |-> out, factor |-> g.factor, past |-> g.past,
         stored |-> [j \in 1..frameLength |-> in[j - 1]]]

RECURSIVE DeEsser_frames(_, _, _, _, _, _)
\* DeEsser.cpp:43-79: the frames from sample i on
DeEsser_frames(samples, i, sampleRate, startFreq, endFreq, reduction) ==
    IF i >= Len(samples) THEN <<>>
    ELSE <<DeEsser_oneFrame(samples, i, sampleRate, startFreq, endFreq, reduction)>>
         \o DeEsser_frames(samples, i + DeEsserFrameSize, sampleRate, startFreq,
                           endFreq, reduction)

RECURSIVE DeEsser_stored(_)
\* the samples the frames stored back, in order
DeEsser_stored(frames) ==
    IF frames = <<>> THEN <<>> ELSE Head(frames).stored \o DeEsser_stored(Tail(frames))

\* DeEsser.cpp:23-86: the frames and the vector after the call
applyDeEsser(samples, sampleRate, startFreq, endFreq, reductionDB) ==
    LET frames == DeEsser_frames(samples, 0, sampleRate, startFreq, endFreq,
                                 DeEsser_reduction(reductionDB))
    IN  [frames |-> frames, samples |-> DeEsser_stored(frames)]

\* the rest of the program during a call of applyDeEsser
DeEsserFrame ==
    /\ UNCHANGED <<noiseGate, eq, limiter, fxn, subject>>
    /\ UNCHANGED <<qvars, cvars, pvars, hvars>>

DeEsserInit ==
    /\ NewQueues({}, 0)
    /\ NewThreads([t \in {} |-> "none"])
    /\ NoPipeline
    /\ subject = "DeEsser"
    /\ noiseGate = NewNoiseGate(GateAllocated)
    /\ eq = NewThreeBandEQ(EqAllocated)
    /\ limiter = NewLimiter
    /\ deesserConfig = NewDeEsserSettings
    /\ pcall = NoCall
    /\ fxn = [process |-> 0, control |-> 0]
    /\ fxh = [sampleRate |-> SAMPLE_RATE, startFreq |-> 0, endFreq |-> 0,
              reductionDB |-> 0, frames |-> <<>>]

\* GUIManager.cpp:293-316 and the arguments of AudioTestRunner.cpp:64: the
\* band and the reduction of the next call; the result of the last one has
\* been copied on (main.cpp:163)
DeEsserArguments ==
    /\ pcall.pc # "crashed"
    /\ \E startFreq \in DeEsserStartFreqs, endFreq \in DeEsserEndFreqs,
          reductionDB \in DeEsserReductions :
         deesserConfig' = [deesserConfig EXCEPT !.startFreq = startFreq,
                                                !.endFreq = endFreq,
                                                !.reductionDB = reductionDB]
    /\ pcall' = NoCall
    /\ fxh' = [fxh EXCEPT !.frames = <<>>]
    /\ DeEsserFrame

\* main.cpp:162, AudioTestRunner.cpp:64: one call of applyDeEsser.  A store to
\* out[FRAME_SIZE] (line 66 with j = 0) lands past the end of the buffer: the
\* call returns as if nothing was stored, or the process dies.
DeEsserApply ==
    /\ pcall.fx = "none"
    /\ \E n \in 0..MaxDeEsserSamples, sampleRate \in DeEsserRates :
         \E samples \in [1..n -> DeEsserSampleValues] :
           LET r == applyDeEsser(samples, sampleRate, deesserConfig.startFreq,
                                 deesserConfig.endFreq, deesserConfig.reductionDB)
               past == \E f \in DOMAIN r.frames : r.frames[f].past
           IN  \E dies \in IF past THEN BOOLEAN ELSE {FALSE} :
                 /\ pcall' = [fx |-> "DeEsser",
                              pc |-> IF dies THEN "crashed" ELSE "idle",
                              input |-> samples,
                              output |-> IF dies THEN <<>> ELSE r.samples,
                              active |-> TRUE, path |-> "deesser",
                              targetGain |-> 0, torn |-> NoTorn]
                 /\ fxh' = [sampleRate |-> sampleRate,
                            startFreq |-> deesserConfig.startFreq,
                            endFreq |-> deesserConfig.endFreq,
                            reductionDB |-> deesserConfig.reductionDB,
                            frames |-> r.frames]
    /\ UNCHANGED deesserConfig
    /\ DeEsserFrame

DeEsserNext == DeEsserArguments \/ DeEsserApply

DeEsserSpec == DeEsserInit /\ [][DeEsserNext]_vars

-----------------------------------------------------------------------------
(* The setters of one effect, called one after the other with any argument  *)
(* (GUIManager.cpp:196-283, AudioTestRunner.cpp:67-75)                      *)

\* arguments below, inside and above what the setters let through; times in
\* tenths of a millisecond
SetterThresholds == {-Unit, Unit \div 2, 2 * Unit}
SetterTimes == {-10, 0, 5, 10, 200}
SetterBands == 0..(NUM_EQ_BANDS + 1)
SetterGains == {-Unit, 3 * Unit, 7 * Unit}
SetterCutoffs == {0, 1000, 30000}

\* the rest of the program while setters are called
SetterFrame ==
    /\ UNCHANGED <<pcall, fxn, fxh>>
    /\ EffectFrame

SetterInit ==
    /\ NewQueues({}, 0)
    /\ NewThreads([t \in {} |-> "none"])
    /\ NoPipeline
    /\ subject \in Subjects
    /\ noiseGate = NewNoiseGate(GateAllocated)
    /\ eq = NewThreeBandEQ(EqAllocated)
    /\ limiter = NewLimiter
    /\ deesserConfig = NewDeEsserSettings
    /\ NoEffectCalls

\* NoiseGate.cpp:167-170
SetNoiseGateThreshold ==
    /\ subject = "NoiseGate"
    /\ \E v \in SetterThresholds : noiseGate' = NoiseGate_setThreshold(noiseGate, v)
    /\ UNCHANGED <<eq, limiter>>
    /\ SetterFrame

\* NoiseGate.cpp:177-181
SetNoiseGateAttackTime ==
    /\ subject = "NoiseGate"
    /\ \E ms \in SetterTimes : noiseGate' = NoiseGate_setAttackTime(noiseGate, ms)
    /\ UNCHANGED <<eq, limiter>>
    /\ SetterFrame

\* NoiseGate.cpp:188-192
SetNoiseGateReleaseTime ==
    /\ subject = "NoiseGate"
    /\ \E ms \in SetterTimes : noiseGate' = NoiseGate_setReleaseTime(noiseGate, ms)
    /\ UNCHANGED <<eq, limiter>>
    /\ SetterFrame

\* Limiter.cpp:82-85
SetLimiterThreshold ==
    /\ subject = "Limiter"
    /\ \E v \in SetterThresholds : limiter' = Limiter_setThreshold(limiter, v)
    /\ UNCHANGED <<noiseGate, eq>>
    /\ SetterFrame

\* Limiter.cpp:92-96
SetLimiterAttackTime ==
    /\ subject = "Limiter"
    /\ \E ms \in SetterTimes : limiter' = Limiter_setAttackTime(limiter, ms)
    /\ UNCHANGED <<noiseGate, eq>>
    /\ SetterFrame

\* Limiter.cpp:103-107
SetLimiterReleaseTime ==
    /\ subject = "Limiter"
    /\ \E ms \in SetterTimes : limiter' = Limiter_setReleaseTime(limiter, ms)
    /\ UNCHANGED <<noiseGate, eq>>
    /\ SetterFrame

\* ThreeBandEQ.cpp:301-307
SetEqBandGain ==
    /\ subject = "ThreeBandEQ"
    /\ \E bandIndex \in SetterBands, gain \in SetterGains :
         eq' = ThreeBandEQ_setBandGain(eq, bandIndex, gain)
    /\ UNCHANGED <<noiseGate, limiter>>
    /\ SetterFrame

\* ThreeBandEQ.cpp:314-321
SetEqBandCutoff ==
    /\ subject = "ThreeBandEQ"
    /\ \E bandIndex \in SetterBands, frequency \in SetterCutoffs :
         eq' = ThreeBandEQ_setBandCutoff(eq, bandIndex, frequency)
    /\ UNCHANGED <<noiseGate, limiter>>
    /\ SetterFrame

SetterNext ==
    \/ SetNoiseGateThreshold \/ SetNoiseGateAttackTime \/ SetNoiseGateReleaseTime
    \/ SetLimiterThreshold \/ SetLimiterAttackTime \/ SetLimiterReleaseTime
    \/ SetEqBandGain \/ SetEqBandCutoff

SetterSpec == SetterInit /\ [][SetterNext]_vars

-----------------------------------------------------------------------------
(* The EQ's gain curve: getSmoothGain over the cutoffs and gains the setters
   store (ThreeBandEQ.cpp:128-163, 301-321) *)

\* arguments of setBandCutoff and setBandGain, some outside the clamped ranges
SmoothCutoffs == {0, 250, 300, 4000, 30000}
SmoothGains == {-Unit, Unit \div 2, 7 * Unit}
\* frequencies in Hz: the ends of the transition zones of the cutoffs above,
\* and frequencies below, between and above them
SmoothFrequencies ==
    {0, 16, 24, 100, 200, 240, 250, 300, 301, 360, 1000, 3200, 4000, 4800,
     10000, 19200, 24000}

\* the rest of the program while the gain curve is evaluated
SmoothFrame ==
    /\ UNCHANGED <<noiseGate, limiter, pcall, fxn>>
    /\ EffectFrame

\* ThreeBandEQ.cpp:19-99: a constructed EQ; no gain computed yet
SmoothInit ==
    /\ NewQueues({}, 0)
    /\ NewThreads([t \in {} |-> "none"])
    /\ NoPipeline
    /\ subject = "ThreeBandEQ"
    /\ noiseGate = NewNoiseGate(GateAllocated)
    /\ eq = NewThreeBandEQ(EqAllocated)
    /\ limiter = NewLimiter
    /\ deesserConfig = NewDeEsserSettings
    /\ pcall = NoCall
    /\ fxn = [process |-> 0, control |-> 0]
    /\ fxh = [called |-> FALSE, frequency |-> 0, gain |-> 0]

\* ThreeBandEQ.cpp:314-321
SmoothSetBandCutoff ==
    /\ \E bandIndex \in SetterBands, frequency \in SmoothCutoffs :
         eq' = ThreeBandEQ_setBandCutoff(eq, bandIndex, frequency)
    /\ fxh' = [called |-> FALSE, frequency |-> 0, gain |-> 0]
    /\ SmoothFrame

\* ThreeBandEQ.cpp:301-307
SmoothSetBandGain ==
    /\ \E bandIndex \in SetterBands, gain \in SmoothGains :
         eq' = ThreeBandEQ_setBandGain(eq, bandIndex, gain)
    /\ fxh' = [called |-> FALSE, frequency |-> 0, gain |-> 0]
    /\ SmoothFrame

\* ThreeBandEQ.cpp:177: applyEQGain asks for the gain at a bin's frequency
SmoothGetGain ==
    /\ \E frequency \in SmoothFrequencies :
         fxh' = [called |-> TRUE, frequency |-> frequency,
                 gain |-> ThreeBandEQ_getSmoothGain(frequency, eq.bandCutoffs,
                                                    eq.bandGains)]
    /\ UNCHANGED eq
    /\ SmoothFrame

SmoothNext == SmoothSetBandCutoff \/ SmoothSetBandGain \/ SmoothGetGain

SmoothSpec == SmoothInit /\ [][SmoothNext]_vars

-----------------------------------------------------------------------------
(* NoiseGate::calculateBandEnergies (NoiseGate.cpp:63-87), bin by bin, for a  *)
(* gate of any transform size.  fxh holds the position in the function, the  *)
(* loop variable i and, as pairs <<bin, band>>, the additions to             *)
(* bandEnergies made so far.                                                 *)

\* values a conversion of a NaN to unsigned int can give: the conversion is
\* undefined
NaNToUnsigned == {0, NUM_BANDS - 1, NUM_BANDS, 2147483647}

RECURSIVE Power(_, _)
Power(x, n) == IF n = 0 THEN 1 ELSE x * Power(x, n - 1)

\* NoiseGate.cpp:74-77: the values static_cast<unsigned int> can give for
\* (NUM_BANDS - 1) * log2(i) / log2(fftSize / 2 - 1), 1 <= i <= fftSize/2 - 1.
\* With fftSize/2 - 1 = 1 the quotient is 0/0.  Otherwise its floor is the
\* largest k with i^(NUM_BANDS-1) >= (fftSize/2 - 1)^k; where the quotient is a
\* whole number k > 0 the rounding of the three double operations gives k for
\* some sizes and a value just below k for others (fftSize = 32, i = 15).
NoiseGate_bandQuotient(i, fftSize) ==
    LET d == fftSize \div 2 - 1
        reached(k) == Power(i, NUM_BANDS - 1) >= Power(d, k)
        floor == CHOOSE k \in 0..(NUM_BANDS - 1) :
                    reached(k) /\ (k < NUM_BANDS - 1 => ~reached(k + 1))
    IN  IF d = 1 THEN NaNToUnsigned
        ELSE IF floor > 0 /\ Power(i, NUM_BANDS - 1) = Power(d, floor)
          THEN {floor - 1, floor}
          ELSE {floor}

\* NoiseGate.cpp:78 without the std::min
NoiseGate_bandUnclamped(quotient) == quotient
\* NoiseGate.cpp:78
NoiseGate_band(quotient) == StdMin(quotient, NUM_BANDS - 1)

\* the rest of the program while the bins are assigned
BandFrame ==
    /\ UNCHANGED <<noiseGate, eq, limiter, pcall, fxn>>
    /\ EffectFrame

\* NoiseGate.cpp:12-32: a gate of some transform size, every resource obtained
BandInit ==
    /\ NewQueues({}, 0)
    /\ NewThreads([t \in {} |-> "none"])
    /\ NoPipeline
    /\ subject = "NoiseGate"
    /\ \E size \in 0..MaxBandFftSize :
         noiseGate = NoiseGate_NoiseGate(SAMPLE_RATE, size, Unit \div 10, 50, 500,
                                         GateAllocated)
    /\ eq = NewThreeBandEQ(EqAllocated)
    /\ limiter = NewLimiter
    /\ deesserConfig = NewDeEsserSettings
    /\ pcall = NoCall
    /\ fxn = [process |-> 0, control |-> 0]
    /\ fxh = [pc |-> "call", i |-> 0, added |-> {}]

\* NoiseGate.cpp:65-67: bandEnergies is filled with zeroes, i = 1
BandEnergiesFill ==
    /\ fxh.pc = "call"
    /\ fxh' = [pc |-> "loop", i |-> 1, added |-> {}]
    /\ BandFrame

\* NoiseGate.cpp:67-85: one iteration of the loop
BandEnergiesIteration ==
    /\ fxh.pc = "loop"
    /\ fxh.i < noiseGate.fftSize \div 2
    /\ \E quotient \in NoiseGate_bandQuotient(fxh.i, noiseGate.fftSize) :
         LET band == NoiseGate_band(quotient)
         IN  fxh' = [fxh EXCEPT !.i = @ + 1,
                                !.added = IF fxh.i > 0 /\ band < NUM_BANDS
                                            THEN @ \cup {<<fxh.i, band>>}
                                            ELSE @]
    /\ BandFrame

\* NoiseGate.cpp:67, 86: i has reached fftSize / 2; return
BandEnergiesReturn ==
    /\ fxh.pc = "loop"
    /\ fxh.i >= noiseGate.fftSize \div 2
    /\ fxh' = [fxh EXCEPT !.pc = "done"]
    /\ BandFrame

BandNext == BandEnergiesFill \/ BandEnergiesIteration \/ BandEnergiesReturn

BandSpec == BandInit /\ [][BandNext]_vars

-----------------------------------------------------------------------------
(* The de-esser stage of the processing loop (main.cpp:114-124, 159-165).    *)
(* tempDeEsser is built once, before the loop, with room for two nominal     *)
(* blocks and 64 frames; here a block has half a frame of the transform and  *)
(* tempDeEsser one frame and one sample.  fxh holds tempDeEsser, the EQ      *)
(* output of the last block and the de-essed samples made from it.           *)

\* main.cpp:115: a block of FRAMES_PER_BUFFER frames is half a transform frame
StageFrames == DeEsserFrameSize \div 2
\* main.cpp:116, 124: PADDED_BUFFER_FRAMES elements
StagePaddedFrames == 2 * StageFrames + 1

\* main.cpp:160-163: the block's EQ output is copied over the first numFrames
\* elements of tempDeEsser, applyDeEsser works on the whole vector, the first
\* numFrames elements are converted to float (exact at this resolution) and
\* stored in deessedData
DeEsserStage(tempDeEsser, eqOutput, cfg) ==
    LET numFrames == Len(eqOutput)
        copied == eqOutput \o SubSeq(tempDeEsser, numFrames + 1, Len(tempDeEsser))
        r == applyDeEsser(copied, SAMPLE_RATE, cfg.startFreq, cfg.endFreq,
                          cfg.reductionDB)
    IN  [tempDeEsser |-> r.samples,
         deessedData |-> SubSeq(r.samples, 1, numFrames)]

\* main.cpp:43-45, 114-124: the de-esser switched on, tempDeEsser of zeroes
StageInit ==
    /\ NewQueues({}, 0)
    /\ NewThreads([t \in {} |-> "none"])
    /\ NoPipeline
    /\ subject = "DeEsser"
    /\ noiseGate = NewNoiseGate(GateAllocated)
    /\ eq = NewThreeBandEQ(EqAllocated)
    /\ limiter = NewLimiter
    /\ deesserConfig = [NewDeEsserSettings EXCEPT !.enabled = TRUE]
    /\ pcall = NoCall
    /\ fxn = [process |-> 0, control |-> 0]
    /\ fxh = [tempDeEsser |-> [i \in 1..StagePaddedFrames |-> 0],
              eqOutput |-> <<>>, deessedData |-> <<>>]

\* GUIManager.cpp:293-316: the sliders of the de-esser, moved between two
\* blocks; the de-essed samples of the last block have gone to the limiter
StageArguments ==
    /\ fxn.control < MaxControlCalls
    /\ \E startFreq \in {f \in DeEsserStartFreqs : f >= 2000 /\ f <= 10000},
          endFreq \in {f \in DeEsserEndFreqs : f >= 3000 /\ f <= 12000},
          reductionDB \in DeEsserReductions :
         deesserConfig' = [deesserConfig EXCEPT !.startFreq = startFreq,
                                                !.endFreq = endFreq,
                                                !.reductionDB = reductionDB]
    /\ fxn' = [fxn EXCEPT !.control = @ + 1]
    /\ fxh' = [fxh EXCEPT !.eqOutput = <<>>, !.deessedData = <<>>]
    /\ UNCHANGED pcall
    /\ UNCHANGED <<noiseGate, eq, limiter, subject>>
    /\ UNCHANGED <<qvars, cvars, pvars, hvars>>

\* main.cpp:159-165: the de-esser stage of one iteration of the loop
StageBlock ==
    /\ fxn.process < MaxProcessCalls
    /\ \E eqOutput \in [1..StageFrames -> DeEsserSampleValues \cup {0}] :
         LET r == DeEsserStage(fxh.tempDeEsser, eqOutput, deesserConfig)
         IN  fxh' = [tempDeEsser |-> r.tempDeEsser, eqOutput |-> eqOutput,
                     deessedData |-> r.deessedData]
    /\ fxn' = [fxn EXCEPT !.process = @ + 1]
    /\ UNCHANGED <<pcall, deesserConfig>>
    /\ UNCHANGED <<noiseGate, eq, limiter, subject>>
    /\ UNCHANGED <<qvars, cvars, pvars, hvars>>

StageNext == StageArguments \/ StageBlock

StageSpec == StageInit /\ [][StageNext]_vars

-----------------------------------------------------------------------------
(* Construction and destruction of NoiseGate and ThreeBandEQ objects         *)
(* (main.cpp:39-40, AudioTestRunner.cpp:71-75).  fxh holds, for each of the   *)
(* two objects, whether it is alive, the resources its constructor obtained  *)
(* and how often each resource was released since.                           *)

\* the transform buffers and plans of a NoiseGate (NoiseGate.h:37-39)
GateResources == {"timeData", "frequencyData", "fftPlan"}
\* the transform buffers and plans of a ThreeBandEQ (ThreeBandEQ.h:35-38)
EqResources == {"timeData", "frequencyData", "fftForwardPlan", "fftInversePlan"}

\* the frameSize arguments of the ThreeBandEQ constructor
LifeFrameSizes == {0, EqHopSize}

\* NoiseGate.cpp:34-48: the resources the destructor releases
NoiseGate_destructor(g) == {r \in GateResources : g[r]}

\* ThreeBandEQ.cpp:101-108: the resources the destructor releases
ThreeBandEQ_destructor(e) == {r \in EqResources : e[r]}

\* ThreeBandEQ.cpp:28-33, 86-94: the resources the constructor releases itself,
\* which it does after a setup that failed
ThreeBandEQ_cleanup(frameSize, alloc) ==
    LET setupOk == /\ alloc.timeData /\ alloc.frequencyData
                   /\ alloc.fftForwardPlan /\ alloc.fftInversePlan
                   /\ alloc.vectors
        e == ThreeBandEQ_ThreeBandEQ(SAMPLE_RATE, frameSize, alloc)
    IN  IF frameSize = 0 \/ setupOk THEN {} ELSE {r \in EqResources : e[r]}

\* the record of an object that was just constructed
LifeBuilt(acquired, released, resources) ==
    [phase |-> "constructed", acquired |-> acquired,
     released |-> [r \in resources |-> IF r \in released THEN 1 ELSE 0]]

\* the record of an object whose destructor released the resources freed
LifeDestroyed(life, freed) ==
    [life EXCEPT !.phase = "destroyed",
                 !.released = [r \in DOMAIN @ |-> IF r \in freed THEN @[r] + 1 ELSE @[r]]]

\* the rest of the program while objects are constructed and destroyed
LifeFrame ==
    /\ UNCHANGED <<limiter, deesserConfig, pcall, subject, fxn>>
    /\ UNCHANGED <<qvars, cvars, pvars, hvars>>

\* main.cpp:39-40: both objects constructed, with every outcome of the
\* allocations
LifeInit ==
    /\ NewQueues({}, 0)
    /\ NewThreads([t \in {} |-> "none"])
    /\ NoPipeline
    /\ subject = "lifecycle"
    /\ limiter = NewLimiter
    /\ deesserConfig = NewDeEsserSettings
    /\ pcall = NoCall
    /\ fxn = [process |-> 0, control |-> 0]
    /\ \E ga \in [DOMAIN GateAllocated -> BOOLEAN],
          ea \in [DOMAIN EqAllocated -> BOOLEAN] :
         /\ noiseGate = NewNoiseGate(ga)
         /\ eq = NewThreeBandEQ(ea)
         /\ fxh = [gate |-> LifeBuilt(NoiseGate_destructor(noiseGate), {},
                                      GateResources),
                   eq |-> LifeBuilt(ThreeBandEQ_destructor(eq),
                                    ThreeBandEQ_cleanup(EqHopSize, ea),
                                    EqResources)]

\* NoiseGate.cpp:12-32, AudioTestRunner.cpp:71: a new NoiseGate once the
\* one before it is gone; the constructor releases nothing
LifeGateConstruct ==
    /\ fxh.gate.phase = "destroyed"
    /\ \E alloc \in [DOMAIN GateAllocated -> BOOLEAN] :
         /\ noiseGate' = NewNoiseGate(alloc)
         /\ fxh' = [fxh EXCEPT !.gate = LifeBuilt({r \in GateResources : alloc[r]},
                                                  {}, GateResources)]
    /\ UNCHANGED eq
    /\ LifeFrame

\* NoiseGate.cpp:34-48: the NoiseGate goes out of scope
LifeGateDestroy ==
    /\ fxh.gate.phase = "constructed"
    /\ fxh' = [fxh EXCEPT !.gate = LifeDestroyed(@, NoiseGate_destructor(noiseGate))]
    /\ UNCHANGED <<noiseGate, eq>>
    /\ LifeFrame

\* ThreeBandEQ.cpp:19-99, AudioTestRunner.cpp:75: a new ThreeBandEQ once the
\* one before it is gone
LifeEqConstruct ==
    /\ fxh.eq.phase = "destroyed"
    /\ \E frameSize \in LifeFrameSizes, alloc \in [DOMAIN EqAllocated -> BOOLEAN] :
         /\ eq' = ThreeBandEQ_ThreeBandEQ(SAMPLE_RATE, frameSize, alloc)
         /\ fxh' = [fxh EXCEPT !.eq = LifeBuilt(ThreeBandEQ_destructor(eq'),
                                                ThreeBandEQ_cleanup(frameSize, alloc),
                                                EqResources)]
    /\ UNCHANGED noiseGate
    /\ LifeFrame

\* ThreeBandEQ.cpp:101-108: the ThreeBandEQ goes out of scope
LifeEqDestroy ==
    /\ fxh.eq.phase = "constructed"
    /\ fxh' = [fxh EXCEPT !.eq = LifeDestroyed(@, ThreeBandEQ_destructor(eq))]
    /\ UNCHANGED <<noiseGate, eq>>
    /\ LifeFrame

LifeNext ==
    \/ LifeGateConstruct
    \/ LifeGateDestroy
    \/ LifeEqConstruct
    \/ LifeEqDestroy

LifeSpec == LifeInit /\ [][LifeNext]_vars

-----------------------------------------------------------------------------
(* BufferQueue properties *)

IsPrefix(s, u) == Len(s) <= Len(u) /\ SubSeq(u, 1, Len(s)) = s

\* C1: in every reachable state, whatever threads interleave push, pop and
\* setDone, a queue holds at most queueCapacity blocks.
C1_CapacityBound == \A q \in Queues : Len(bufferQueue[q]) <= queueCapacity[q]

\* a full queue with a producer blocked on it
C1_Witness ==
    \E q \in Queues : Len(bufferQueue[q]) = queueCapacity[q] /\ queueHasSpace[q] # {}

\* C2: with one producer and one consumer the blocks successful pops returned,
\* in order, are a prefix of the blocks push enqueued, in order (the blocks are
\* pairwise different, so none is duplicated, reordered or skipped), and the
\* consumer's out-parameter holds the block it popped last.
C2_FifoOrder ==
    /\ IsPrefix(popped["q"], pushed["q"])
    /\ \A t \in Threads :
         (op[t] = "pop" /\ pc[t] \in {"pop_notify", "idle"} /\ ret[t] = "ok")
            => buf[t] = popped["q"][Len(popped["q"])]

\* two blocks were pushed and both were popped, in the order of the pushes
C2_Witness == pushed["q"] = <<1, 2>> /\ popped["q"] = <<1, 2>>

\* C3: the step in which pop decides reports failure only on an empty queue
\* whose done flag is set; on a non-empty queue it succeeds, hands out the
\* oldest block and leaves the rest, also when done is set; the undefined
\* front() of an empty queue is never reached.
C3_PopFailure ==
    [][\A t \in Threads :
         (pc[t] = "pop_chk" /\ pc'[t] # "pop_chk") =>
            IF bufferQueue[opq[t]] = <<>>
              THEN /\ done[opq[t]]
                   /\ pc'[t] = "idle" /\ ret'[t] = "fail"
                   /\ bufferQueue' = bufferQueue
              ELSE /\ pc'[t] = "pop_notify"
                   /\ buf'[t] = Head(bufferQueue[opq[t]])
                   /\ bufferQueue'[opq[t]] = Tail(bufferQueue[opq[t]])]_vars

\* a pop that passed its wait after shutdown and still returned a block
C3_Witness ==
    \E t \in Threads : op[t] = "pop" /\ pc[t] = "pop_notify" /\ passDone[t]

\* C4: a push that passes its wait when done is already set returns without
\* enqueuing and leaves the queue contents as they were, also when the queue
\* has room.
C4_PushAfterShutdown ==
    [][\A t \in Threads :
         (pc[t] = "push_chk" /\ passDone[t] /\ pc'[t] # "push_chk") =>
            /\ bufferQueue' = bufferQueue
            /\ pc'[t] = "idle" /\ ret'[t] = "dropped"]_vars

\* a push dropped its block although the queue had room
C4_Witness ==
    \E t \in Threads :
        /\ op[t] = "push" /\ pc[t] = "idle" /\ ret[t] = "dropped" /\ passDone[t]
        /\ Len(bufferQueue[opq[t]]) < queueCapacity[opq[t]]

\* setDone() on q has stored the flag and every setDone() call on q has returned
SetDoneReturned(q) ==
    /\ done[q]
    /\ \A t \in Threads : ~(op[t] = "setDone" /\ opq[t] = q /\ pc[t] # "idle")

\* C5: once setDone() has returned, every thread that is in a push or a pop
\* eventually returns from it.
C5_ShutdownWakesAll ==
    \A t \in DOMAIN SpscRoles : [](SetDoneReturned("q") => <>(pc[t] = "idle"))

\* C6: push enqueues only while the queue holds fewer than queueCapacity blocks
\* and appends at the tail; a push that blocked on a full queue <<a, b>> and
\* enqueues after exactly one pop leaves <<b, its block>>; and a push blocked on
\* a full queue returns once a pop has taken a block.
C6_Backpressure ==
    /\ [][\A t \in Threads :
            (pc[t] = "push_chk" /\ pc'[t] = "push_notify") =>
               /\ Len(bufferQueue[opq[t]]) < queueCapacity[opq[t]]
               /\ bufferQueue'[opq[t]] = Append(bufferQueue[opq[t]], arg[t])
               /\ (/\ Len(waitSnap[t].held) = queueCapacity[opq[t]]
                   /\ Len(popped[opq[t]]) = waitSnap[t].pops + 1)
                  => bufferQueue'[opq[t]] = Append(Tail(waitSnap[t].held), arg[t])]_vars
    /\ (pc["prod"] = "push_blocked" /\ Len(popped["q"]) > waitSnap["prod"].pops)
          ~> (pc["prod"] = "idle")

\* capacity 2, the queue held <<1, 2>> when push(3) blocked, one pop returned 1,
\* push(3) has returned and the queue holds <<2, 3>>
C6_Witness ==
    /\ queueCapacity["q"] = 2
    /\ waitSnap["prod"].held = <<1, 2>>
    /\ popped["q"] = <<1>>
    /\ op["prod"] = "push" /\ arg["prod"] = 3 /\ pc["prod"] = "idle" /\ ret["prod"] = "ok"
    /\ bufferQueue["q"] = <<2, 3>>

\* C7: a queue starts empty with done false; done never goes back to false; and
\* a step of setDone() taken when done is already set changes neither the
\* done flag nor the queue contents.
C7_DonePermanent ==
    /\ \A q \in Queues : bufferQueue[q] = <<>> /\ ~done[q]
    /\ [][\A q \in Queues : done[q] => done'[q]]_vars
    /\ [][\A t \in Threads :
            (op[t] = "setDone" /\ pc[t] # "idle" /\ pc'[t] # pc[t] /\ done[opq[t]]) =>
               (done' = done /\ bufferQueue' = bufferQueue)]_vars

\* two setDone() calls have returned and blocks are still queued
C7_Witness ==
    /\ \E t, u \in Threads :
         /\ t # u
         /\ op[t] = "setDone" /\ pc[t] = "idle"
         /\ op[u] = "setDone" /\ pc[u] = "idle"
    /\ \E q \in Queues : done[q] /\ bufferQueue[q] # <<>>

-----------------------------------------------------------------------------
(* Pipeline properties *)

\* C8: once main has begun its shutdown sequence, the sequence completes: the
\* callback is not left inside a queue operation, the processing thread has
\* left its loop and the join has returned.
C8_ShutdownCompletes ==
    (at["main"] = "m_shutdown")
        ~> (at["main"] = "m_end" /\ at["cb"] = "cb_idle" /\ at["proc"] = "p_exit")

\* the step in which the processing thread leaves its loop
ProcLeaves == at["proc"] # "p_exit" /\ at'["proc"] = "p_exit"

C10_UnderrunNeverWaits ==
    ~(at["cb"] = "cb_out" /\ op["cb"] = "pop" /\ opq["cb"] = "out"
        /\ pc["cb"] = "pop_blocked" /\ ~done["out"])

\* C11: every invocation of the hardware callback that has returned, on whatever
\* branch, wrote its whole output block (audio or silence) and returned the
\* continue code 0.
C11_CallbackNeverStops ==
    \A i \in DOMAIN played :
        /\ played[i].out \in {"audio", "silence"}
        /\ played[i].n > 0
        /\ played[i].code = 0

-----------------------------------------------------------------------------
(* Effect properties *)

\* the enabled flag of the effect under test
SubjectActive ==
    CASE subject = "NoiseGate"   -> noiseGate.effectActive
      [] subject = "ThreeBandEQ" -> eq.effectActive
      [] OTHER                   -> limiter.limiterActive

\* the step in which process() is entered
EntersProcess == fxn'.process = fxn.process + 1

\* C12: in no interleaving of a setter call of the control thread with a
\* process() call of the processing thread on the same effect does one thread
\* store to a field (not the atomic flag) that the other loads or stores
\* without anything ordering the two accesses.
C12_SettersRaceFree == fxh.raced = {}

\* the cross-call state of the effect under test has its reset defaults
SubjectAtDefaults ==
    CASE subject = "NoiseGate"   -> noiseGate.currentGain = 0
      [] subject = "ThreeBandEQ" ->
            /\ \A i \in DOMAIN eq.inputBufferInternal : eq.inputBufferInternal[i] = 0
            /\ \A i \in DOMAIN eq.outputOverlapBuffer : eq.outputOverlapBuffer[i] = 0
      [] OTHER                   -> limiter.currentGain = LimiterUnity

\* C13: after a setEnabled(false) followed by a setEnabled(true), the first
\* process() call that is entered and finds the effect enabled starts from the
\* reset defaults, whatever process() calls were under way or made in between.
C13_ReenableStartsFromDefaults ==
    [][(EntersProcess /\ SubjectActive /\ fxh.reon) => SubjectAtDefaults]_vars

\* C14: a process() call entered while the effect is disabled (freshly
\* constructed or after setEnabled(false)) takes the copying path, and when it
\* returns the output block is the input block, whatever its length.
C14_Bypass ==
    /\ [][(EntersProcess /\ ~SubjectActive) =>
            /\ pcall'.path = "bypass"
            /\ pcall'.output = pcall'.input]_vars
    /\ [][(pcall.path = "bypass" /\ pcall.pc # "idle") =>
            (pcall'.output = pcall.input /\ pcall'.input = pcall.input)]_vars
    /\ [](pcall.path = "bypass" => pcall.output = pcall.input)

\* a call on an EQ disabled by setEnabled(false) has returned a non-silent
\* block that is not one hop long
C14_Witness ==
    /\ subject = "ThreeBandEQ" /\ fxh.off /\ ~eq.effectActive
    /\ pcall.fx = "ThreeBandEQ" /\ pcall.pc = "idle" /\ pcall.path = "bypass"
    /\ Len(pcall.input) # eq.hopSize
    /\ \E i \in DOMAIN pcall.input : pcall.input[i] # 0
    /\ pcall.output = pcall.input

\* C15: the limiter's currentGain is in [0, 1] in every reachable state, and
\* no output sample of a limiter call is larger in magnitude than its input
\* sample.
C15_NeverAmplifies ==
    /\ limiter.currentGain >= 0 /\ limiter.currentGain <= Unit
    /\ pcall.fx = "Limiter" =>
          \A i \in DOMAIN pcall.output : Abs(pcall.output[i]) <= Abs(pcall.input[i])

\* C16: every output sample of a process() call on an enabled limiter has a
\* magnitude of at most the threshold.
C16_PeaksWithinThreshold ==
    (pcall.fx = "Limiter" /\ pcall.path = "limit") =>
        \A i \in DOMAIN pcall.output : Abs(pcall.output[i]) <= limiter.threshold

\* a resource of the constructor of the effect under test was not obtained
AllocationFailed ==
    CASE subject = "NoiseGate"   ->
            ~noiseGate.timeData \/ ~noiseGate.frequencyData \/ ~noiseGate.fftPlan
      [] subject = "ThreeBandEQ" -> ThreeBandEQ_unusable(eq)
      [] OTHER                   -> FALSE

\* C17: a NoiseGate or ThreeBandEQ whose constructor did not get a resource
\* stays disabled whatever setEnabled calls follow, and each of its process()
\* calls returns with the output equal to the input.
C17_FailedEffectStaysBypassed ==
    AllocationFailed =>
        /\ ~SubjectActive
        /\ pcall.pc # "crashed"
        /\ (pcall.fx # "none" /\ pcall.pc = "idle") => pcall.output = pcall.input

\* the output block an enabled, usable EQ returns for a block of one hop
ThreeBandEQ_result(e, inputBuffer) ==
    LET shifted == ThreeBandEQ_shiftIn(e, inputBuffer)
    IN  ThreeBandEQ_overlapAdd(shifted,
            ThreeBandEQ_filtered(shifted, e.bandCutoffs, e.bandGains)).out

\* C18: a process() call on an enabled EQ with a block that is not empty and
\* not one hop long returns that many zeroes and leaves the object as it
\* was, so that every following call of one hop returns what it would have
\* returned without the mismatched call.
C18_MismatchLeavesState ==
    [][(EntersProcess /\ subject = "ThreeBandEQ" /\ eq.effectActive
          /\ Len(pcall'.input) \notin {0, eq.hopSize}) =>
            /\ pcall'.pc = "idle"
            /\ Len(pcall'.output) = Len(pcall'.input)
            /\ \A i \in DOMAIN pcall'.output : pcall'.output[i] = 0
            /\ eq'.inputBufferInternal = eq.inputBufferInternal
            /\ eq'.outputOverlapBuffer = eq.outputOverlapBuffer
            /\ ~ThreeBandEQ_unusable(eq) =>
                  \A b \in [1..eq.hopSize -> SampleValues] :
                      ThreeBandEQ_result(eq', b) = ThreeBandEQ_result(eq, b)]_vars

\* a mismatched call has returned on an enabled EQ that holds the samples of
\* an earlier block
C18_Witness ==
    /\ subject = "ThreeBandEQ" /\ eq.effectActive
    /\ pcall.pc = "idle" /\ pcall.path = "mismatch"
    /\ Len(pcall.input) = 1 /\ pcall.output = <<0>>
    /\ \E i \in DOMAIN eq.inputBufferInternal : eq.inputBufferInternal[i] # 0
    /\ \E i \in DOMAIN eq.outputOverlapBuffer : eq.outputOverlapBuffer[i] # 0

-----------------------------------------------------------------------------
(* Effects chain properties *)

\* the step in which the processing thread hands a processed block to
\* outputBuffer.push
ProcPushes == pc["proc"] = "idle" /\ at["proc"] = "p_popped" /\ pc'["proc"] = "push_lock"

ChainWithoutDeEsser == <<"NoiseGate", "ThreeBandEQ", "Limiter">>
ChainWithDeEsser    == <<"NoiseGate", "ThreeBandEQ", "DeEsser", "Limiter">>

\* C19: every block the processing thread pushes went through NoiseGate,
\* ThreeBandEQ, the DeEsser exactly when deesserConfig.enabled is set, and the
\* Limiter, in this order, and its samples are the Limiter's output; no block
\* of the output queue went through the effects in any other order.
C19_ChainOrder ==
    /\ [][ProcPushes =>
            \A c \in 1..NUM_CHANNELS :
                arg'["proc"].ch[c].via =
                    IF deesserConfig.enabled THEN ChainWithDeEsser
                                             ELSE ChainWithoutDeEsser]_vars
    /\ [](\A i \in DOMAIN bufferQueue["out"] : \A c \in 1..NUM_CHANNELS :
            bufferQueue["out"][i].ch[c].via \in {ChainWithDeEsser, ChainWithoutDeEsser})

\* the user has switched the de-esser on and a block that went through it is
\* in the output queue
C19_Witness ==
    /\ deesserConfig.enabled
    /\ Len(bufferQueue["out"]) = 1
    /\ \A c \in 1..NUM_CHANNELS : bufferQueue["out"][1].ch[c].via = ChainWithDeEsser

\* C20: a block the processing thread pushes has as many samples as the block
\* it popped; the samples of every channel of it are the chain's output for
\* channel 0 of the popped block, so all NUM_CHANNELS samples of a frame are
\* equal.
C20_SingleChannel ==
    [][ProcPushes =>
         /\ arg'["proc"].n = buf["proc"].n
         /\ arg'["proc"].id = buf["proc"].id
         /\ DOMAIN arg'["proc"].ch = 1..NUM_CHANNELS
         /\ \A c \in 1..NUM_CHANNELS :
              /\ arg'["proc"].ch[c].src = buf["proc"].ch[1].src
              /\ arg'["proc"].ch[c].src = 1
              /\ arg'["proc"].ch[c] = arg'["proc"].ch[1]
              /\ arg'["proc"].ch[c].via # <<>>]_vars

\* the callback has popped a processed block of a nominal callback period
\* whose channels all carry the processed first channel
C20_Witness ==
    /\ at["cb"] = "cb_out" /\ pc["cb"] = "idle" /\ ret["cb"] = "ok"
    /\ buf["cb"].n = FRAMES_PER_BUFFER * NUM_CHANNELS
    /\ \A c \in 1..NUM_CHANNELS :
         buf["cb"].ch[c].src = 1 /\ buf["cb"].ch[c].via # <<>>

-----------------------------------------------------------------------------
(* Effect numerics properties *)

\* ThreeBandEQ.cpp:278-282 after a frame filtered with all gains 1.0: the tail
\* holds the second half of the transformed-back frame, fftSize times the
\* windowed history, and after the next shift these samples are the first
\* half of the history
ThreeBandEQ_unityTail(e) ==
    [i \in 1..(e.fftSize - e.hopSize) |->
        e.fftSize * Unit * e.window[e.hopSize + i] * e.inputBufferInternal[i]]

\* the EQ is about to filter a frame with all three gains 1.0 after a call
\* that did the same (or after a reset)
EqUnityFrame ==
    /\ pcall.fx = "ThreeBandEQ" /\ pcall.pc = "ola"
    /\ eq.effectActive
    /\ eq.bandGains = <<Unit, Unit, Unit>>
    /\ "bandGains" \notin DOMAIN pcall.torn
    /\ eq.outputOverlapBuffer = ThreeBandEQ_unityTail(eq)

\* C21: with the EQ enabled and all three band gains 1.0, every call of one
\* hop returns the block of the call before it (silence on the first call),
\* that is the input delayed by fftSize - hopSize samples, to within one
\* hundredth per sample.
C21_ReconstructionIdentity ==
    [][(EqUnityFrame /\ pcall'.pc = "idle") =>
         \A i \in 1..eq.hopSize :
             Abs(pcall'.output[i] - eq.inputBufferInternal[i]) <= 1]_vars

\* the blocks after which a gain that moves with the time constant of ms10
\* tenths of a millisecond is within a hundredth of its target: five time
\* constants, in blocks of fftSize samples
GateSettleBlocks(g, ms10) ==
    (5 * StdMax(1, (ms10 * g.sampleRate) \div 10000) + g.fftSize - 1) \div g.fftSize

LimiterAtThresholdStep ==
    /\ pcall.fx = "Limiter" /\ pcall.pc = "loop"
    /\ Len(pcall'.output) = Len(pcall.output) + 1
    /\ limiter.limiterActive
    /\ "threshold" \notin DOMAIN pcall.torn
    /\ Abs(pcall.input[Len(pcall.output) + 1]) = limiter.threshold

\* C23: on every sample whose magnitude is that of the threshold the target
\* gain is 1.0 and currentGain does not go down and does not exceed 1.0, from
\* whatever gain earlier attack phases left (so that it converges to 1.0).
C23_AtThreshold ==
    [][LimiterAtThresholdStep =>
         /\ Limiter_targetGain(Abs(pcall.input[Len(pcall.output) + 1]),
                               <<limiter.threshold, limiter.threshold>>) = Unit
         /\ limiter'.currentGain >= limiter.currentGain
         /\ limiter'.currentGain <= Unit]_vars

\* bin k of a frame has its frequency in [startFreq, endFreq] or is the mirror
\* bin of one that has: bins above FRAME_SIZE / 2 mirror those below
DeEsserBandBin(k) ==
    DeEsser_inBand(StdMin(k, DeEsserFrameSize - k), fxh.sampleRate,
                   fxh.startFreq, fxh.endFreq)

\* the energy, after the gain loop, of the bins of frame f that are in the
\* band (inside) or not
DeEsserEnergy(f, inside) ==
    LET e(k) == IF DeEsserBandBin(k) = inside
                  THEN ((((f.out[k][1] * f.out[k][1] + f.out[k][2] * f.out[k][2])
                            * f.factor[k]) \div Unit) * f.factor[k]) \div Unit
                  ELSE 0
    IN  e(0) + e(1) + e(2) + e(3)

\* C24: in every frame of an applyDeEsser call the bins whose frequency lies
\* in [startFreq, endFreq] and their mirror bins are multiplied by
\* 10^(-reductionDB/20) and every other bin by 1; with reductionDB = 0 the
\* samples come back unchanged; a larger reductionDB is a smaller factor and
\* gives no more energy in the band and the same energy outside it.
C24_BandSelective ==
    pcall.fx = "DeEsser" =>
        /\ pcall.pc # "crashed"
        /\ \A f \in DOMAIN fxh.frames : \A k \in 0..(DeEsserFrameSize - 1) :
               fxh.frames[f].factor[k] =
                   IF DeEsserBandBin(k) THEN DeEsser_reduction(fxh.reductionDB)
                   ELSE Unit
        /\ fxh.reductionDB = 0 => pcall.output = pcall.input
        /\ \A more \in DeEsserReductions :
               more > fxh.reductionDB =>
                 /\ DeEsser_reduction(more) < DeEsser_reduction(fxh.reductionDB)
                 /\ LET r == applyDeEsser(pcall.input, fxh.sampleRate,
                                          fxh.startFreq, fxh.endFreq,
                                          more)
                    IN  \A f \in DOMAIN fxh.frames :
                          /\ DeEsserEnergy(r.frames[f], TRUE)
                                <= DeEsserEnergy(fxh.frames[f], TRUE)
                          /\ DeEsserEnergy(r.frames[f], FALSE)
                                = DeEsserEnergy(fxh.frames[f], FALSE)

\* C25: after any setter calls the thresholds of NoiseGate and Limiter are in
\* [0, 1], their attack times at least 0.1 ms and their release times at
\* least 1.0 ms, every EQ band gain is in [0, 6] and every EQ cutoff in
\* [20 Hz, sampleRate / 2]; setBandGain and setBandCutoff with a band index of
\* 3 or more change nothing, and the getters return 1.0 and 0.0 for it.
C25_ClampedDomains ==
    /\ noiseGate.threshold >= 0 /\ noiseGate.threshold <= Unit
    /\ limiter.threshold >= 0 /\ limiter.threshold <= Unit
    /\ noiseGate.attackTimeMs >= 1 /\ limiter.attackTimeMs >= 1
    /\ noiseGate.releaseTimeMs >= 10 /\ limiter.releaseTimeMs >= 10
    /\ \A b \in 0..(NUM_EQ_BANDS - 1) :
          /\ ThreeBandEQ_getBandGain(eq, b) >= 0
          /\ ThreeBandEQ_getBandGain(eq, b) <= 6 * Unit
          /\ ThreeBandEQ_getBandCutoff(eq, b) >= 20
          /\ 2 * ThreeBandEQ_getBandCutoff(eq, b) <= eq.sampleRate
    /\ \A b \in SetterBands : b >= NUM_EQ_BANDS =>
          /\ \A gain \in SetterGains : ThreeBandEQ_setBandGain(eq, b, gain) = eq
          /\ \A frequency \in SetterCutoffs :
                ThreeBandEQ_setBandCutoff(eq, b, frequency) = eq
          /\ ThreeBandEQ_getBandGain(eq, b) = Unit
          /\ ThreeBandEQ_getBandCutoff(eq, b) = 0

\* setters were called with arguments beyond both ends: a cutoff is at 20 Hz,
\* another at sampleRate / 2, a gain is at 0 and another at 6
C25_Witness ==
    /\ subject = "ThreeBandEQ"
    /\ eq.bandCutoffs[1] = 20
    /\ 2 * eq.bandCutoffs[2] = eq.sampleRate
    /\ eq.bandGains[1] = 0
    /\ eq.bandGains[3] = 6 * Unit

\* an iteration of the loop of process() on the effect fx, entered enabled
LoopStep(fx) ==
    /\ pcall.fx = fx /\ pcall.pc = "loop" /\ pcall.active
    /\ Len(pcall'.output) = Len(pcall.output) + 1

\* the gain now lies between the gain from and the target to, both included
Between(from, now, to) ==
    \/ from <= now /\ now <= to
    \/ to <= now /\ now <= from

\* C26: on every sample of an enabled Limiter::process(), a target gain below
\* currentGain leaves the new currentGain between the target and the old
\* value, and any other target leaves it between the old value and the
\* target and at most 1.0.
C26_NeverCrossesTarget ==
    [][LoopStep("Limiter") =>
         \E th \in Loads(limiter, "threshold") :
            LET targetGain ==
                    Limiter_targetGain(Abs(pcall.input[Len(pcall.output) + 1]), th)
            IN  /\ Between(limiter.currentGain, limiter'.currentGain, targetGain)
                /\ targetGain >= limiter.currentGain => limiter'.currentGain <= Unit]_vars

\* C27: the gate's currentGain is in [0, 1] in every reachable state; every
\* sample of an enabled NoiseGate::process() leaves it between its old value
\* and the block's target gain, and the output sample is the input sample
\* times the new gain.
C27_GateEnvelope ==
    /\ [](noiseGate.currentGain >= 0 /\ noiseGate.currentGain <= Unit)
    /\ [][LoopStep("NoiseGate") =>
            /\ pcall.targetGain \in {0, Unit}
            /\ Between(noiseGate.currentGain, noiseGate'.currentGain, pcall.targetGain)
            /\ pcall'.output[Len(pcall'.output)] =
                  Mul(pcall.input[Len(pcall'.output)], noiseGate'.currentGain)]_vars

\* C28: a disabled NoiseGate has a currentGain of 0; the first process() call
\* entered after the gate was disabled and enabled again finds a currentGain
\* of 0, and a first sample processed from a gain of 0 is scaled by at most
\* 1 - attackCoeff.
C28_ResumesFromSilence ==
    /\ [](~noiseGate.effectActive => noiseGate.currentGain = 0)
    /\ [][(EntersProcess /\ subject = "NoiseGate" /\ noiseGate.effectActive
             /\ fxh.reon) => noiseGate.currentGain = 0]_vars
    /\ [][(LoopStep("NoiseGate") /\ Len(pcall.output) = 0
             /\ noiseGate.currentGain = 0) =>
            Abs(pcall'.output[1])
               <= Mul(Abs(pcall.input[1]), Unit - noiseGate.attackCoeff)]_vars

\* ThreeBandEQ.cpp:285-295: the state reset() leaves: a history and an overlap
\* tail of zeroes
ThreeBandEQ_silent(e) ==
    /\ \A i \in 1..Len(e.inputBufferInternal) : e.inputBufferInternal[i] = 0
    /\ \A i \in 1..Len(e.outputOverlapBuffer) : e.outputOverlapBuffer[i] = 0

\* C29: a disabled ThreeBandEQ has an input history and an overlap tail of
\* zeroes, and the first process() call entered after the EQ was disabled and
\* enabled again finds them zero.
C29_DisableClearsOverlap ==
    /\ [](~eq.effectActive => ThreeBandEQ_silent(eq))
    /\ [][(EntersProcess /\ subject = "ThreeBandEQ" /\ eq.effectActive
             /\ fxh.reon) => ThreeBandEQ_silent(eq)]_vars

\* C30: for the cutoffs and gains the setters store, getSmoothGain returns the
\* low gain below 0.8 cutoff0, the mid gain between 1.2 cutoff0 and
\* 0.8 cutoff1, the high gain above 1.2 cutoff1, and at the two ends of each
\* transition zone the gain of the flat region next to it.
C30_GainCurveContinuous ==
    fxh.called =>
      LET f10 == 10 * fxh.frequency
          cut == eq.bandCutoffs
          g   == eq.bandGains
      IN  /\ f10 < 8 * cut[1] => fxh.gain = g[1]
          /\ (f10 > 12 * cut[1] /\ f10 < 8 * cut[2]) => fxh.gain = g[2]
          /\ f10 > 12 * cut[2] => fxh.gain = g[3]
          /\ f10 = 8 * cut[1] => fxh.gain = g[1]
          /\ f10 = 12 * cut[1] => fxh.gain = g[2]
          /\ f10 = 8 * cut[2] => fxh.gain = g[2]
          /\ f10 = 12 * cut[2] => fxh.gain = g[3]

-----------------------------------------------------------------------------
(* Band analysis, pipeline handoff and resource properties *)

\* C31: for every transform size, when calculateBandEnergies returns, every
\* bin from 1 to fftSize/2 - 1 has been added to exactly one band, that band
\* lies in 0 .. NUM_BANDS - 1, bin 0 has been added to none, and a higher bin
\* is never in a lower band.
C31_BandIndexInBounds ==
    /\ \A a \in fxh.added :
         /\ a[1] # 0
         /\ a[2] \in 0..(NUM_BANDS - 1)
         /\ \A b \in fxh.added : a[1] <= b[1] => a[2] <= b[2]
    /\ fxh.pc = "done" =>
         \A i \in 1..(noiseGate.fftSize \div 2 - 1) :
             \E band \in 0..(NUM_BANDS - 1) : <<i, band>> \in fxh.added

\* a gate of 34 points has assigned its 16 bins, to the first and to the last
\* band among others
C31_Witness ==
    /\ fxh.pc = "done"
    /\ noiseGate.fftSize = 34
    /\ Cardinality(fxh.added) = 16
    /\ <<1, 0>> \in fxh.added
    /\ <<16, NUM_BANDS - 1>> \in fxh.added

\* NoiseGate.cpp:138: the step of an enabled process() call in which
\* determineTargetGain returns
TargetStep ==
    /\ pcall.fx = "NoiseGate" /\ pcall.pc = "target"
    /\ pcall'.pc = "loop"

\* C32: the target gain determineTargetGain returns for a block of an enabled
\* gate is 1.0 when the energy of the bands, computed from the first fftSize
\* samples and divided by NUM_BANDS and by fftSize, is greater than the square
\* of the threshold, and 0.0 otherwise; for a block of zeroes it is 0.0.
C32_TargetGainBinary ==
    [][TargetStep =>
         LET first == NoiseGate_timeData(noiseGate, pcall.input)
             above == NoiseGate_totalEnergy(first)
                        > NUM_BANDS * noiseGate.fftSize
                            * noiseGate.threshold * noiseGate.threshold
         IN  /\ pcall'.targetGain = IF above THEN Unit ELSE 0
             /\ (\A i \in DOMAIN pcall.input : pcall.input[i] = 0)
                   => pcall'.targetGain = 0]_vars

C34_OneBlockInFlight ==
    /\ Len(bufferQueue["in"]) + Len(bufferQueue["out"]) <= 1
    /\ \A q \in {"in", "out"} :
          /\ queueCapacity[q] = DEFAULT_CAPACITY
          /\ Len(bufferQueue[q]) < queueCapacity[q]
    /\ \A t \in DOMAIN PipeRoles :
          /\ pc[t] \notin {"push_block", "push_blocked"}
          /\ t \notin queueHasSpace["in"] \cup queueHasSpace["out"]

\* the second block of the stream is in the output queue, the callback
\* waiting for it, while main has not begun the shutdown
C34_Witness ==
    /\ running
    /\ Len(pushed["out"]) = 2
    /\ Len(bufferQueue["out"]) = 1
    /\ bufferQueue["in"] = <<>>
    /\ at["cb"] = "cb_out" /\ op["cb"] = "pop"

\* no thread has called setDone()
NoSetDone == \A t \in Threads : op[t] # "setDone"

\* C35: with one producer and one consumer and no setDone() call, the producer
\* and the consumer are never both blocked in their waits; a consumer blocked
\* in pop() returns with success once a block has been enqueued, and a producer
\* blocked in push() on a full queue returns once a pop has taken a block.
C35_NoLostWakeup ==
    /\ [](NoSetDone => ~(pc["prod"] = "push_blocked" /\ pc["cons"] = "pop_blocked"))
    /\ (pc["cons"] = "pop_blocked" /\ bufferQueue["q"] # <<>>)
          ~> ((pc["cons"] = "idle" /\ ret["cons"] = "ok") \/ ~NoSetDone)
    /\ (/\ pc["prod"] = "push_blocked"
        /\ Len(waitSnap["prod"].held) = queueCapacity["q"]
        /\ Len(popped["q"]) > waitSnap["prod"].pops)
          ~> ((pc["prod"] = "idle" /\ ret["prod"] = "ok") \/ ~NoSetDone)

\* the consumer is blocked in pop(), the producer has enqueued a block and is
\* about to notify, and setDone() was not called
C35_Witness ==
    /\ NoSetDone
    /\ pc["cons"] = "pop_blocked"
    /\ Len(bufferQueue["q"]) = 1
    /\ pc["prod"] = "push_notify"

\* C36: the de-essed samples of a block are those the stage produces from the
\* same EQ output and parameters in a run whose earlier blocks were silent,
\* whatever the earlier blocks of this run were.
C36_DeEsserStateless ==
    fxh.eqOutput # <<>> =>
        fxh.deessedData =
            DeEsserStage([i \in 1..StagePaddedFrames |-> 0], fxh.eqOutput,
                         deesserConfig).deessedData

\* C37: in every call of applyDeEsser, whatever the samples, the band and the
\* rate, every bin of out that the gain loop reads or writes lies in
\* [0, FRAME_SIZE - 1], every frame stores back only samples that the vector
\* has, and the vector has the length it came with.
C37_DeEsserInBounds ==
    pcall.fx = "DeEsser" =>
        /\ \A f \in DOMAIN fxh.frames :
              /\ ~fxh.frames[f].past
              /\ Len(fxh.frames[f].stored)
                    <= Len(pcall.input) - (f - 1) * DeEsserFrameSize
        /\ pcall.pc # "crashed"
        /\ Len(pcall.output) = Len(pcall.input)

\* C38: over every construction and destruction of a NoiseGate or a
\* ThreeBandEQ, whether the constructor got every resource or not, no
\* transform buffer or plan is released more often than once, none is
\* released that was not obtained, and after the destructor each one that
\* was obtained has been released once.
C38_ReleasedOnce ==
    \A life \in {fxh.gate, fxh.eq} : \A r \in DOMAIN life.released :
        LET once == IF r \in life.acquired THEN 1 ELSE 0
        IN  /\ life.released[r] <= once
            /\ life.phase = "destroyed" => life.released[r] = once

====
